---- MODULE Spec2Model ----
(***************************************************************************)
(* Model of the document-indexing coordinator and of the verification job  *)
(* pipeline of the certify backend:                                        *)
(*   backend/app/tasks/document_tasks.py      (_index_document_async)      *)
(*   backend/app/tasks/verification_tasks.py  (_run_verification_async)    *)
(*   backend/app/services/verification_service.py (verify_sentence)        *)
(*   backend/app/services/vector_store.py     (Weaviate evidence store)    *)
(*                                                                         *)
(* The relational store is modelled by its COMMITTED state (what another   *)
(* READ COMMITTED transaction can observe) plus, per worker, the pending   *)
(* state of its open SQLAlchemy session/transaction.                       *)
(***************************************************************************)
EXTENDS Integers, Sequences, FiniteSets, TLC

\* ------------------------------------------------------------------ bounds
NumDocs == 1
MaxAttempts == 2
MaxChunks == 2
MaxSentences == 2   \* sentences of the main document
MaxHits == 2        \* objects an evidence-store query returns
MaxCitations == 1   \* citations in a classifier response

MaxStale == 1       \* documents of a batch's snapshot deleted before their turn

NoDoc == 0
None == 0
Absent == -1

DocIds == 1..NumDocs
Attempts == 1..MaxAttempts

\* The batch index makes its runs one after the other; they are the runs of
\* the last attempt.
BatchSlot == MaxAttempts
IdleBatch == [pc |-> "idle", document_ids |-> <<>>, i |-> 1,
              indexed_count |-> 0, skipped_count |-> 0, failed_count |-> 0,
              outcomes |-> <<>>]
NoBatch == [IdleBatch EXCEPT !.pc = "none"]

VARIABLES
  \* --- relational store, committed state (document_tasks.py)
  documents,     \* Document rows: [indexed, indexed_at, page_count]
  chunkRows,     \* committed DocumentChunk rows
  nextChunkId,   \* generator of DocumentChunk.id
  now,           \* logical clock behind datetime.utcnow()
  \* --- evidence store (vector_store.py)
  collections,   \* whether the project's Weaviate collection exists
  objects,       \* Weaviate objects (EvidenceRecords)
  nextUuid,      \* generator of Weaviate object uuids
  \* --- index attempts (one _index_document_async call each)
  att,           \* per attempt: pc, target document, result status, lock
  txRows,        \* per attempt: chunk rows added in its open transaction
  txCleared,     \* per attempt: whether its transaction deleted the chunks
  docChunks,     \* what the chunker yields for each document (its length)
  \* --- history (ghost) variables of the indexing runs
  committedRuns, \* attempts whose final commit succeeded
  lastRun,       \* per document, the attempt that last committed it
  blockedBy,     \* per attempt, the holder it found on the row lock
  wrote,         \* per attempt, whether it wrote anything anywhere
  \* --- one verify_sentence call (verification_service.py)
  spc,             \* the step verify_sentence is at
  store_response,  \* the objects the last evidence-store query returned
  semantic_chunks, \* result of search_similar
  hybrid_chunks,   \* result of search_hybrid
  merged,          \* the merged, deduplicated candidates (lines 115-122)
  reranker,        \* how the reranker behaved in _rerank_chunks
  reranked,        \* result of _rerank_chunks
  evidence,        \* reranked[:final_top_k], the evidence of the sentence
  llm_response,    \* what the classifier answered
  result,          \* what verify_sentence returns
  \* --- the verification job (verification_tasks.py)
  jobExists,     \* whether the VerificationJob row of the job id exists
  mainDocExists, \* whether the job's main document exists
  nsent,         \* number of sentences the processor extracts
  job,           \* the committed VerificationJob row
  vrows,         \* the committed VerifiedSentence rows, in insertion order
  sJob,          \* the job object in the worker's session
  sRows,         \* VerifiedSentence rows added but not committed
  run,           \* locals of _run_verification_async: pc, idx, counters
  delivered,     \* how many times the task was delivered to a worker
  returned,      \* what the last run of the task returned
  events,        \* progress events the current run has published
  \* --- history (ghost) variables of the current run
  raisedAt,      \* sentences whose classifier call raised
  bodyRaised,    \* sentences whose processing raised before the row was added
  commitFailed,  \* sentences whose checkpoint commit raised
  softAt,        \* the sentence during which the soft time limit was breached
  \* --- the index_document task of each attempt (document_tasks.py)
  retries,       \* self.request.retries: how often the task was retried
  \* --- the batch index of the project (document_tasks.py)
  batch          \* locals of _index_project_documents_async

indexVars == <<documents, chunkRows, nextChunkId, now, collections, objects,
               nextUuid, att, txRows, txCleared, docChunks, committedRuns,
               lastRun, blockedBy, wrote, retries, batch>>

sentVars == <<spc, store_response, semantic_chunks, hybrid_chunks, merged,
              reranker, reranked, evidence, llm_response, result>>

jobVars == <<jobExists, mainDocExists, nsent, job, vrows, sJob, sRows, run,
             delivered, returned, events, raisedAt, bodyRaised, commitFailed,
             softAt>>

vars == <<indexVars, sentVars, jobVars>>

\* ------------------------------------------------------- helper operators
Max(a, b) == IF a >= b THEN a ELSE b
Min(a, b) == IF a <= b THEN a ELSE b

RowsOf(rows, d) == {r \in rows : r.document_id = d}

\* The attempts whose open transaction holds the row lock of document d.
Holders(d) == {w \in Attempts : att[w].holds /\ att[w].doc = d}

(***************************************************************************)
(* Retrieval and classification of one sentence                            *)
(* (verification_service.py, vector_store.py).  Similarities, distances    *)
(* and confidences are in hundredths: 0.91 is 91.  File names are          *)
(* sequences of letter codes, a capital letter being its small one + 100.  *)
(***************************************************************************)
\* Settings read by verify_sentence; the deployment configures their values.
RERANK_CANDIDATES == 2
SEMANTIC_TOP_K == 1
KEYWORD_TOP_K == 2
RERANK_TOP_K == 2
MIN_SIMILARITY_THRESHOLD == 60

NoDistance == 999   \* obj.metadata.distance is None
NoId == 0           \* chunk_id missing or empty
NoPage == 0         \* the citation gives no page
NoChunk == [chunk_id |-> -1]
NoResult == [validation_result |-> "none"]
NoResponse == [kind |-> "none"]
NoReranker == [mode |-> "none"]

SeqMap(f(_), s) == [i \in 1..Len(s) |-> f(s[i])]
Take(s, n) == SubSeq(s, 1, Min(n, Len(s)))

\* Mutant of Similarity: the distance itself is reported.
SimilarityIsDistance(distance) == distance

\* vector_store.py line 237 / 300
Similarity(distance) == 100 - distance

Match(obj, similarity, source) ==
  [content |-> obj.content, document_id |-> obj.document_id,
   chunk_id |-> obj.chunk_id, page_number |-> obj.page_number,
   start_char |-> obj.start_char, end_char |-> obj.end_char,
   filename |-> obj.filename, similarity |-> similarity, source |-> source]

\* vector_store.search_similar, lines 229-256; response is the list of
\* objects near_vector returned (at most the requested limit).
search_similar(response, min_similarity) ==
  LET kept == SelectSeq(response, LAMBDA o :
                 /\ o.distance # NoDistance
                 /\ Similarity(o.distance) >= min_similarity)
  IN SeqMap(LAMBDA o : Match(o, Similarity(o.distance), "semantic"), kept)

\* vector_store.search_hybrid, lines 290-320
search_hybrid(response) ==
  SeqMap(LAMBDA o :
           IF o.distance = NoDistance
           THEN Match(o, 0, "hybrid_keyword_only")
           ELSE Match(o, Similarity(o.distance), "hybrid"),
         response)

\* verify_sentence line 118: chunk.get("chunk_id") or hash(chunk["content"])
MergeKey(c) ==
  IF c.chunk_id # NoId THEN <<"id", c.chunk_id>> ELSE <<"hash", c.content>>

\* verify_sentence lines 115-122
RECURSIVE MergeLoop(_, _, _)
MergeLoop(chunks, seen, acc) ==
  IF chunks = <<>> THEN acc
  ELSE LET c == Head(chunks)
           key == MergeKey(c)
       IN IF key \in seen
          THEN MergeLoop(Tail(chunks), seen, acc)
          ELSE MergeLoop(Tail(chunks), seen \cup {key}, Append(acc, c))

\* Mutant of Merge: the two candidate lists are concatenated as they are.
MergeKeepsAll(semantic, hybrid) == semantic \o hybrid

\* verify_sentence lines 114-122
Merge(semantic, hybrid) == MergeLoop(semantic \o hybrid, {}, <<>>)

\* list.sort(key=score, reverse=True): descending and stable.
RECURSIVE InsertDesc(_, _)
InsertDesc(sorted, x) ==
  IF sorted = <<>> THEN <<x>>
  ELSE IF x.score > Head(sorted).score THEN <<x>> \o sorted
       ELSE <<Head(sorted)>> \o InsertDesc(Tail(sorted), x)

RECURSIVE SortDesc(_)
SortDesc(s) ==
  IF s = <<>> THEN <<>>
  ELSE InsertDesc(SortDesc(SubSeq(s, 1, Len(s) - 1)), s[Len(s)])

\* _rerank_chunks lines 322-330: drop later chunks of equal content.
RECURSIVE DedupContent(_, _, _)
DedupContent(ranked, seen, deduped) ==
  IF ranked = <<>> THEN deduped
  ELSE LET c == Head(ranked)
       IN IF c.content \in seen
          THEN DedupContent(Tail(ranked), seen, deduped)
          ELSE DedupContent(Tail(ranked), seen \cup {c.content},
                            Append(deduped, c))

\* Mutant of Rescore: the rerank score replaces the similarity.
RescoreReplaces(chunk, score) == [chunk EXCEPT !.similarity = score]

\* _rerank_chunks lines 298 / 316: chunk["similarity"] = max(old, score)
Rescore(chunk, score) == [chunk EXCEPT !.similarity = Max(@, score)]

\* Mutant of RerankFallback: a failed rerank leaves no candidates.
RerankFallbackEmpty(chunks) == <<>>

\* _rerank_chunks lines 333-335: on an exception the chunks passed in are
\* returned.
RerankFallback(chunks) == chunks

\* _rerank_chunks, lines 277-335.  rr.mode is "cohere" (lines 286-299),
\* "cosine" (lines 300-320) or "fail" (the reranker raises, lines 333-335);
\* rr.score gives the score the reranker assigns to a content.
rerank_chunks(chunks, rr) ==
  IF chunks = <<>> THEN <<>>
  ELSE IF rr.mode = "fail" THEN RerankFallback(chunks)
  ELSE LET scored == [i \in 1..Len(chunks) |->
                        [score |-> rr.score[chunks[i].content],
                         chunk |-> Rescore(chunks[i],
                                           rr.score[chunks[i].content])]]
           sorted == SortDesc(scored)
           top == IF rr.mode = "cohere"
                  THEN Take(sorted, Min(Len(chunks), RERANK_CANDIDATES))
                  ELSE sorted
       IN DedupContent(SeqMap(LAMBDA t : t.chunk, top), {}, <<>>)

Lower(ch) == IF ch > 100 THEN ch - 100 ELSE ch
LowerStr(str) == [i \in 1..Len(str) |-> Lower(str[i])]

\* Mutant of IsSubstring: the name must begin the filename.
IsPrefix(a, b) == Len(a) <= Len(b) /\ SubSeq(b, 1, Len(a)) = a

\* Python's "a in b" on strings.
IsSubstring(a, b) ==
  \E i \in 0..(Len(b) - Len(a)) : SubSeq(b, i + 1, i + Len(a)) = a

\* _find_matching_chunk lines 352-355, from position i on.
RECURSIVE FirstMatch(_, _, _)
FirstMatch(citation, chunks, i) ==
  IF i > Len(chunks) THEN NoChunk
  ELSE IF /\ citation.document # <<>>
          /\ IsSubstring(LowerStr(citation.document),
                         LowerStr(chunks[i].filename))
          /\ (citation.page = NoPage \/ chunks[i].page_number = citation.page)
       THEN chunks[i]
       ELSE FirstMatch(citation, chunks, i + 1)

\* Mutant of find_matching_chunk: the page is taken from the classifier's
\* citation instead of from the matched chunk.
find_matching_chunk_trusts_page(citation, chunks) ==
  LET m == FirstMatch(citation, chunks, 1)
      c == IF m # NoChunk THEN m ELSE chunks[1]
  IN IF chunks = <<>> THEN NoChunk
     ELSE IF citation.page = NoPage THEN c
     ELSE [c EXCEPT !.page_number = citation.page]

\* _find_matching_chunk, lines 337-358
find_matching_chunk(citation, chunks) ==
  LET m == FirstMatch(citation, chunks, 1)
  IN IF m # NoChunk THEN m
     ELSE IF chunks # <<>> THEN chunks[1] ELSE NoChunk

\* _parse_verification_response lines 248-259
Citation(citation, matching_chunk) ==
  [document_id |-> matching_chunk.document_id,
   cited_text |-> citation.quote,
   page_number |-> matching_chunk.page_number,
   start_char |-> matching_chunk.start_char,
   end_char |-> matching_chunk.end_char,
   similarity_score |-> matching_chunk.similarity,
   filename |-> matching_chunk.filename]

\* _parse_verification_response lines 242-259
RECURSIVE ProcessCitations(_, _)
ProcessCitations(raw, chunks) ==
  IF raw = <<>> THEN <<>>
  ELSE LET matching_chunk == find_matching_chunk(Head(raw), chunks)
           rest == ProcessCitations(Tail(raw), chunks)
       IN IF matching_chunk # NoChunk
          THEN <<Citation(Head(raw), matching_chunk)>> \o rest
          ELSE rest

\* _parse_verification_response lines 226-235
MapVerdict(v) ==
  IF v \in {"VALIDATED", "UNCERTAIN", "INCORRECT"} THEN v ELSE "UNCERTAIN"

Result(verdict, confidence, reasoning, citations) ==
  [validation_result |-> verdict, confidence_score |-> confidence,
   reasoning |-> reasoning, citations |-> citations]

\* _parse_verification_response, lines 197-275.  response.kind is "json" (a
\* JSON object was found and loaded), "text" (no JSON object in the text,
\* lines 216-223) or "malformed" (json.loads raises, lines 268-275).
parse_verification_response(response, chunks) ==
  IF response.kind = "malformed"
  THEN Result("UNCERTAIN", 50, "response", <<>>)
  ELSE IF response.kind = "text"
  THEN Result("UNCERTAIN", 50, "response", <<>>)
  ELSE Result(MapVerdict(response.validation_result),
              Max(0, Min(100, response.confidence_score)),
              "llm",
              ProcessCitations(response.citations, chunks))

\* verify_sentence lines 99-127: retrieval of the evidence for a sentence.
Candidates(inp) ==
  Merge(search_similar(inp.semantic, MIN_SIMILARITY_THRESHOLD),
        search_hybrid(inp.hybrid))

Retrieve(inp) == Take(rerank_chunks(Candidates(inp), inp.rerank), RERANK_TOP_K)

\* Mutant of verify_sentence: the classifier is called whatever the evidence.
verify_sentence_always_classifies(inp) ==
  IF ~inp.store_up \/ inp.response.kind = "raise"
  THEN Result("UNCERTAIN", 0, "error", <<>>)
  ELSE parse_verification_response(inp.response, Retrieve(inp))

\* verify_sentence, lines 78-171.  inp.store_up is whether the evidence store
\* answers; a response of kind "raise" is the classifier call raising.
verify_sentence(inp) ==
  IF ~inp.store_up
  THEN Result("UNCERTAIN", 0, "error", <<>>)            \* lines 164-171
  ELSE LET top == Retrieve(inp)
       IN IF top = <<>>
          THEN Result("UNCERTAIN", 0, "no_evidence", <<>>)   \* lines 129-136
          ELSE IF inp.response.kind = "raise"
          THEN Result("UNCERTAIN", 0, "error", <<>>)    \* lines 164-171
          ELSE parse_verification_response(inp.response, top)

\* ------------------------------------------------------------ Init (index)
RunsStart ==
  /\ documents = [d \in DocIds |-> [indexed |-> FALSE, indexed_at |-> None,
                                    page_count |-> None]]
  /\ chunkRows = {}
  /\ nextChunkId = 1
  /\ now = 1
  /\ collections = FALSE
  /\ objects = {}
  /\ nextUuid = 1
  /\ att = [w \in Attempts |-> [pc |-> "start", doc |-> NoDoc,
                                status |-> "none", holds |-> FALSE,
                                chunks_indexed |-> Absent]]
  /\ txRows = [w \in Attempts |-> {}]
  /\ txCleared = [w \in Attempts |-> FALSE]
  /\ committedRuns = {}
  /\ lastRun = [d \in DocIds |-> None]
  /\ blockedBy = [w \in Attempts |-> None]
  /\ wrote = [w \in Attempts |-> FALSE]
  /\ retries = [w \in Attempts |-> 0]

\* No run is under way and no batch index was asked for.
IndexStart ==
  /\ RunsStart
  /\ batch = NoBatch

\* No verify_sentence call is under way.
SentenceStart ==
  /\ spc = "search_similar"
  /\ store_response = <<>>
  /\ semantic_chunks = <<>>
  /\ hybrid_chunks = <<>>
  /\ merged = <<>>
  /\ reranker = NoReranker
  /\ reranked = <<>>
  /\ evidence = <<>>
  /\ llm_response = NoResponse
  /\ result = NoResult

\* The VerificationJob row as created (PENDING), before any run.
PendingJob ==
  [status |-> "PENDING", started_at |-> None, completed_at |-> None,
   total_sentences |-> 0, verified_sentences |-> 0,
   progress |-> [n |-> 0, d |-> 1],
   validated_count |-> 0, uncertain_count |-> 0, incorrect_count |-> 0,
   error_message |-> ""]

Idle == [pc |-> "idle", idx |-> 0, validated_count |-> 0,
         uncertain_count |-> 0, incorrect_count |-> 0, error_count |-> 0,
         error |-> ""]

NotReturned == [status |-> "none"]

JobStart ==
  /\ job = PendingJob
  /\ vrows = <<>>
  /\ sJob = PendingJob
  /\ sRows = <<>>
  /\ run = Idle
  /\ delivered = 0
  /\ returned = NotReturned
  /\ events = <<>>
  /\ raisedAt = {}
  /\ bodyRaised = {}
  /\ commitFailed = {}
  /\ softAt = Absent

InitIndex ==
  /\ IndexStart
  /\ docChunks \in [DocIds -> 0..MaxChunks]
  /\ SentenceStart
  /\ JobStart
  /\ jobExists = TRUE /\ mainDocExists = TRUE /\ nsent = 0

\* --------------------------------------------------- _index_document_async
\* Mutant of Finish: a run that raises is not rolled back; its transaction
\* stays open and keeps the row lock.
FinishLeavesLock(w, status, n) ==
  /\ att' = [att EXCEPT ![w] = [pc |-> "done", doc |-> att[w].doc,
                                status |-> status,
                                holds |-> (status = "error" /\ att[w].holds),
                                chunks_indexed |-> n]]
  /\ txRows' = [txRows EXCEPT ![w] = IF status = "error" THEN @ ELSE {}]
  /\ txCleared' = [txCleared EXCEPT ![w] = FALSE]

\* session.rollback() / session close: the pending state of the transaction
\* is dropped and its row lock released.
Finish(w, status, n) ==
  /\ att' = [att EXCEPT ![w] = [pc |-> "done", doc |-> att[w].doc,
                                status |-> status, holds |-> FALSE,
                                chunks_indexed |-> n]]
  /\ txRows' = [txRows EXCEPT ![w] = {}]
  /\ txCleared' = [txCleared EXCEPT ![w] = FALSE]

\* Mutant of LockAvailable: a plain SELECT, which never fails on a held lock.
LockAlwaysAvailable(w, d) == TRUE

\* SELECT ... FOR UPDATE NOWAIT succeeds iff no other transaction holds the
\* row lock of the document.
LockAvailable(w, d) == Holders(d) \ {w} = {}

\* The run of attempt w is made by the batch index.
BatchRun(w) == w = BatchSlot /\ batch.pc = "running"

\* The document ids a run of attempt w can be given: the batch passes the
\* next id of its snapshot, a retried task has the arguments of its first
\* run, and a new task is given any id, of a document or of none.
Arguments(w) ==
  IF BatchRun(w) THEN {batch.document_ids[batch.i]}
  ELSE IF retries[w] > 0 THEN {att[w].doc}
  ELSE DocIds \cup {NoDoc}

\* lines 147-169: take the row lock without waiting.
AcquireLock(w) ==
  /\ UNCHANGED <<sentVars, jobVars, retries, batch>>
  /\ att[w].pc = "start"
  /\ w = BatchSlot => batch.pc \in {"none", "running"}
  /\ BatchRun(w) => batch.i <= Len(batch.document_ids)
  /\ (retries[w] = 0 /\ ~BatchRun(w)) =>                \* numbered by start
       \A v \in Attempts : v < w => ~(att[v].pc = "start" /\ retries[v] = 0)
  /\ \E d \in Arguments(w) :
       /\ IF d = NoDoc
         THEN \* no such row: nothing is locked, ValueError, rollback
              /\ Finish(w, "error", Absent)
              /\ UNCHANGED blockedBy
         ELSE IF LockAvailable(w, d)
              THEN /\ att' = [att EXCEPT ![w] = [pc |-> "locked", doc |-> d,
                                                 status |-> "none",
                                                 holds |-> TRUE,
                                                 chunks_indexed |-> Absent]]
                   /\ UNCHANGED <<txRows, txCleared, blockedBy>>
              ELSE \* LockNotAvailable: return already_processing
                   /\ att' = [att EXCEPT ![w] = [pc |-> "done", doc |-> d,
                                    status |-> "already_processing",
                                    holds |-> FALSE,
                                    chunks_indexed |-> Absent]]
                   /\ blockedBy' = [blockedBy EXCEPT ![w] =
                                      CHOOSE v \in Holders(d) \ {w} : TRUE]
                   /\ UNCHANGED <<txRows, txCleared>>
  /\ UNCHANGED <<documents, chunkRows, nextChunkId, now, collections, objects,
                 nextUuid, docChunks, committedRuns, lastRun, wrote>>

\* Mutant of ShouldSkip: the idempotency test is missing.
NeverSkip(d) == FALSE

\* line 172: the idempotency test on the row read under the lock.
ShouldSkip(d) == documents[d].indexed

\* lines 171-178: idempotency check; the return closes the session.
AlreadyIndexed(w) ==
  /\ UNCHANGED <<sentVars, jobVars, retries, batch>>
  /\ att[w].pc = "locked"
  /\ ShouldSkip(att[w].doc)
  /\ Finish(w, "already_indexed", 0)
  /\ UNCHANGED <<documents, chunkRows, nextChunkId, now, collections, objects,
                 nextUuid, docChunks, committedRuns, lastRun, blockedBy, wrote>>

\* lines 180-186: DELETE the document's chunks, flush (no commit).
ClearChunks(w) ==
  /\ UNCHANGED <<sentVars, jobVars, retries, batch>>
  /\ att[w].pc = "locked"
  /\ ~ShouldSkip(att[w].doc)
  /\ att' = [att EXCEPT ![w].pc = "cleared"]
  /\ txCleared' = [txCleared EXCEPT ![w] = TRUE]
  /\ wrote' = [wrote EXCEPT ![w] = TRUE]
  /\ UNCHANGED <<documents, chunkRows, nextChunkId, now, collections, objects,
                 nextUuid, txRows, docChunks, committedRuns, lastRun,
                 blockedBy>>

\* lines 188-190 and vector_store.create_schema: not part of the transaction.
CreateSchema(w) ==
  /\ UNCHANGED <<sentVars, jobVars, retries, batch>>
  /\ att[w].pc = "cleared"
  /\ collections' = TRUE
  /\ att' = [att EXCEPT ![w].pc = "schema"]
  /\ wrote' = [wrote EXCEPT ![w] = TRUE]
  /\ UNCHANGED <<documents, chunkRows, nextChunkId, now, objects, nextUuid,
                 txRows, txCleared, docChunks, committedRuns, lastRun,
                 blockedBy>>

\* Mutant of NewChunkRows: the ordinals are counted from 1.
NewChunkRowsFromOne(w, d, n, firstId) ==
  {[id |-> firstId + i, document_id |-> d, chunk_index |-> i + 1,
    page_number |-> i + 1, weaviate_id |-> None, run |-> w] : i \in 0..(n - 1)}

\* lines 204-215: one DocumentChunk per chunk of the processed document,
\* chunk_index from enumerate(); ids are assigned by the flush of line 218.
NewChunkRows(w, d, n, firstId) ==
  {[id |-> firstId + i, document_id |-> d, chunk_index |-> i,
    page_number |-> i + 1, weaviate_id |-> None, run |-> w] : i \in 0..(n - 1)}

\* Mutant of StoreChunks: line 218 commits instead of flushing.
StoreChunksCommits(w) ==
  /\ UNCHANGED <<sentVars, jobVars, retries, batch>>
  /\ att[w].pc = "schema"
  /\ LET d == att[w].doc
         n == docChunks[d]
         new == NewChunkRows(w, d, n, nextChunkId)
     IN /\ txRows' = [txRows EXCEPT ![w] = new]
        /\ chunkRows' = (chunkRows \ RowsOf(chunkRows, d)) \cup new
        /\ nextChunkId' = nextChunkId + n
  /\ att' = [att EXCEPT ![w].pc = "flushed"]
  /\ UNCHANGED <<documents, now, collections, objects, nextUuid,
                 txCleared, docChunks, committedRuns, lastRun, blockedBy,
                 wrote>>

\* lines 192-219: run the chunker, add the rows, flush.
StoreChunks(w) ==
  /\ UNCHANGED <<sentVars, jobVars, retries, batch>>
  /\ att[w].pc = "schema"
  /\ LET d == att[w].doc
         n == docChunks[d]
     IN /\ txRows' = [txRows EXCEPT ![w] = NewChunkRows(w, d, n, nextChunkId)]
        /\ nextChunkId' = nextChunkId + n
  /\ att' = [att EXCEPT ![w].pc = "flushed"]
  /\ UNCHANGED <<documents, chunkRows, now, collections, objects, nextUuid,
                 txCleared, docChunks, committedRuns, lastRun, blockedBy,
                 wrote>>

\* Mutant of NewObjects: the payload is built before the flush, when the
\* rows have no id yet.
NewObjectsBeforeFlush(w, rows, k, firstUuid) ==
  {[uuid |-> firstUuid + r.chunk_index, chunk_id |-> None,
    document_id |-> r.document_id, run |-> w] :
      r \in {x \in rows : x.chunk_index < k}}

\* vector_store.index_chunks, lines 171-194: one Weaviate object per chunk
\* of the payload, carrying the chunk's id; the first k of them.
NewObjects(w, rows, k, firstUuid) ==
  {[uuid |-> firstUuid + r.chunk_index, chunk_id |-> r.id,
    document_id |-> r.document_id, run |-> w] :
      r \in {x \in rows : x.chunk_index < k}}

\* lines 221-244: write the evidence records, then put their ids on the rows.
IndexChunks(w) ==
  /\ UNCHANGED <<sentVars, jobVars, retries, batch>>
  /\ att[w].pc = "flushed"
  /\ LET n == Cardinality(txRows[w])
     IN /\ objects' = objects \cup NewObjects(w, txRows[w], n, nextUuid)
        /\ nextUuid' = nextUuid + n
        /\ txRows' = [txRows EXCEPT ![w] =
             {[r EXCEPT !.weaviate_id = nextUuid + r.chunk_index] :
                r \in txRows[w]}]
  /\ att' = [att EXCEPT ![w].pc = "evidence"]
  /\ wrote' = [wrote EXCEPT ![w] = TRUE]
  /\ UNCHANGED <<documents, chunkRows, nextChunkId, now, collections,
                 txCleared, docChunks, committedRuns, lastRun, blockedBy>>

\* index_chunks raising part-way (embedding or Weaviate error): the objects
\* already added to the batch stay in the store, the transaction rolls back.
IndexChunksFails(w) ==
  /\ UNCHANGED <<sentVars, jobVars, retries, batch>>
  /\ att[w].pc = "flushed"
  /\ \E k \in 0..Cardinality(txRows[w]) :
       /\ objects' = objects \cup NewObjects(w, txRows[w], k, nextUuid)
       /\ nextUuid' = nextUuid + k
  /\ Finish(w, "error", Absent)
  /\ wrote' = [wrote EXCEPT ![w] = TRUE]
  /\ UNCHANGED <<documents, chunkRows, nextChunkId, now, collections,
                 docChunks, committedRuns, lastRun, blockedBy>>

\* The committed chunk rows after the transaction of w commits.
CommittedRows(w) ==
  (IF txCleared[w] THEN chunkRows \ RowsOf(chunkRows, att[w].doc)
                   ELSE chunkRows) \cup txRows[w]

\* lines 246-259: mark the document indexed and commit everything at once.
CommitIndex(w) ==
  /\ UNCHANGED <<sentVars, jobVars, retries, batch>>
  /\ att[w].pc = "evidence"
  /\ LET d == att[w].doc
     IN /\ documents' = [documents EXCEPT ![d] =
             [indexed |-> TRUE, indexed_at |-> now,
              page_count |-> docChunks[d]]]
        /\ chunkRows' = CommittedRows(w)
        /\ lastRun' = [lastRun EXCEPT ![d] = w]
  /\ now' = now + 1
  /\ committedRuns' = committedRuns \cup {w}
  /\ Finish(w, "completed", Cardinality(txRows[w]))
  /\ UNCHANGED <<nextChunkId, collections, objects, nextUuid, docChunks,
                 blockedBy, wrote>>

\* lines 261-264: any other step raising while the lock is held (database
\* error, create_schema, the chunker, the commit): rollback and re-raise.
IndexFails(w) ==
  /\ UNCHANGED <<sentVars, jobVars, retries, batch>>
  /\ att[w].pc \in {"locked", "cleared", "schema", "evidence"}
  /\ att[w].pc = "locked" => ~ShouldSkip(att[w].doc)
  /\ Finish(w, "error", Absent)
  /\ UNCHANGED <<documents, chunkRows, nextChunkId, now, collections, objects,
                 nextUuid, docChunks, committedRuns, lastRun, blockedBy, wrote>>

\* Re-indexing is requested by clearing the indexed flag of a document (an
\* UPDATE of the row, which waits for the row lock).
ResetIndexed(d) ==
  /\ UNCHANGED <<sentVars, jobVars, retries, batch>>
  /\ documents[d].indexed
  /\ Holders(d) = {}
  /\ \E w \in Attempts : att[w].pc = "start"
  /\ documents' = [documents EXCEPT ![d].indexed = FALSE]
  /\ UNCHANGED <<chunkRows, nextChunkId, now, collections, objects, nextUuid,
                 att, txRows, txCleared, docChunks, committedRuns, lastRun,
                 blockedBy, wrote>>

\* ---------------------------------------------------- index_document_task
max_retries == 5

\* Mutant of ShouldRetry: the retry count is not looked at.
AlwaysRetry(w) == att[w].status = "already_processing"

\* autoretry_for=(DocumentAlreadyProcessingError,), max_retries=5: the task
\* is queued again when its run reported a held lock and the retries are
\* not used up.
ShouldRetry(w) ==
  att[w].status = "already_processing" /\ retries[w] < max_retries

\* Mutant of TaskOutcome: autoretry_for names Exception, so every error of
\* the run is retried.
TaskOutcomeRetriesAll(w) ==
  IF att[w].pc # "done" THEN "running"
  ELSE IF att[w].status \in {"completed", "already_indexed"} THEN "succeeded"
  ELSE IF retries[w] < max_retries THEN "retry"
  ELSE "failed"

\* How the task of attempt w stands.  Lines 116-129: completed and
\* already_indexed are returned; already_processing raises
\* DocumentAlreadyProcessingError, which is retried while retries are left
\* and fails the task otherwise; any other exception is re-raised and, not
\* being in autoretry_for, fails the task at once.
TaskOutcome(w) ==
  IF att[w].pc # "done" THEN "running"
  ELSE IF att[w].status \in {"completed", "already_indexed"} THEN "succeeded"
  ELSE IF att[w].status = "error" THEN "failed"
  ELSE IF ShouldRetry(w) THEN "retry"
  ELSE "failed"

\* The retry is delivered: the task runs again with the same arguments and
\* self.request.retries one higher; the run starts from the beginning.
TaskRetries(w) ==
  /\ UNCHANGED <<sentVars, jobVars, batch>>
  /\ TaskOutcome(w) = "retry"
  /\ retries' = [retries EXCEPT ![w] = retries[w] + 1]
  /\ att' = [att EXCEPT ![w] = [pc |-> "start", doc |-> att[w].doc,
                                status |-> "none", holds |-> FALSE,
                                chunks_indexed |-> Absent]]
  /\ blockedBy' = [blockedBy EXCEPT ![w] = None]
  /\ UNCHANGED <<documents, chunkRows, nextChunkId, now, collections, objects,
                 nextUuid, txRows, txCleared, docChunks, committedRuns,
                 lastRun, wrote>>

NextIndex ==
  \/ \E w \in Attempts : AcquireLock(w)
  \/ \E w \in Attempts : AlreadyIndexed(w)
  \/ \E w \in Attempts : ClearChunks(w)
  \/ \E w \in Attempts : CreateSchema(w)
  \/ \E w \in Attempts : StoreChunks(w)
  \/ \E w \in Attempts : IndexChunks(w)
  \/ \E w \in Attempts : IndexChunksFails(w)
  \/ \E w \in Attempts : CommitIndex(w)
  \/ \E w \in Attempts : IndexFails(w)
  \/ \E d \in DocIds : ResetIndexed(d)

SpecIndex == InitIndex /\ [][NextIndex]_vars

\* The runs as the index_document tasks make them: a run that met a held
\* lock is run again by the retry of its task.
InitTask ==
  /\ IndexStart
  /\ docChunks \in [DocIds -> {1}]
  /\ SentenceStart
  /\ JobStart
  /\ jobExists = TRUE /\ mainDocExists = TRUE /\ nsent = 0

NextTask ==
  \/ NextIndex
  \/ \E w \in Attempts : TaskRetries(w)

SpecTask == InitTask /\ [][NextTask]_vars

\* The broker delivers every queued retry and a worker that has started a
\* run goes on with it (or is stopped by the time limit, which is a failure
\* of the run): some step is taken as long as one is possible.
SpecTaskFair == SpecTask /\ WF_vars(NextTask)

\* ------------------------------------------ _index_project_documents_async
\* The snapshots the query of lines 295-301 can give: every document that is
\* not indexed, once, in some order; an id whose document is deleted before
\* the batch comes to it stands in the snapshot as NoDoc.
Snapshots ==
  LET unindexed == {d \in DocIds : ~documents[d].indexed}
  IN  {ids \in UNION {[1..n -> DocIds \cup {NoDoc}] :
                        n \in 0..(NumDocs + MaxStale)} :
         /\ \A d \in DocIds :
              Cardinality({k \in DOMAIN ids : ids[k] = d}) =
                IF d \in unindexed THEN 1 ELSE 0
         /\ Cardinality({k \in DOMAIN ids : ids[k] = NoDoc}) <= MaxStale}

\* Mutant of Tally: a document found locked is counted nowhere.
TallyForgetsLocked(b, status) ==
  IF status = "completed"
  THEN [b EXCEPT !.indexed_count = b.indexed_count + 1]
  ELSE IF status = "already_indexed"
  THEN [b EXCEPT !.skipped_count = b.skipped_count + 1]
  ELSE IF status = "error"
  THEN [b EXCEPT !.failed_count = b.failed_count + 1]
  ELSE b

\* lines 309-321: the counters after a run that returned status, or raised
\* ("error").
Tally(b, status) ==
  IF status = "completed"
  THEN [b EXCEPT !.indexed_count = b.indexed_count + 1]
  ELSE IF status \in {"already_indexed", "already_processing"}
  THEN [b EXCEPT !.skipped_count = b.skipped_count + 1]
  ELSE IF status = "error"
  THEN [b EXCEPT !.failed_count = b.failed_count + 1]
  ELSE b

\* lines 293-306: read the ids of the unindexed documents in a session of
\* its own and set the counters to zero.
BatchSnapshot ==
  /\ UNCHANGED <<sentVars, jobVars>>
  /\ batch.pc = "idle"
  /\ \E ids \in Snapshots :
       batch' = [IdleBatch EXCEPT !.pc = "running", !.document_ids = ids]
  /\ UNCHANGED <<documents, chunkRows, nextChunkId, now, collections, objects,
                 nextUuid, att, txRows, txCleared, docChunks, committedRuns,
                 lastRun, blockedBy, wrote, retries>>

\* lines 308-321: the run of the current document is over; count its result
\* and go on to the next document, whose run starts from the beginning.
BatchCounts ==
  /\ UNCHANGED <<sentVars, jobVars>>
  /\ BatchRun(BatchSlot)
  /\ att[BatchSlot].pc = "done"
  /\ batch' = [Tally(batch, att[BatchSlot].status) EXCEPT
                 !.i = batch.i + 1,
                 !.outcomes = Append(batch.outcomes,
                                     [doc |-> att[BatchSlot].doc,
                                      status |-> att[BatchSlot].status])]
  /\ att' = [att EXCEPT ![BatchSlot] = [pc |-> "start", doc |-> NoDoc,
                                        status |-> "none", holds |-> FALSE,
                                        chunks_indexed |-> Absent]]
  /\ blockedBy' = [blockedBy EXCEPT ![BatchSlot] = None]
  /\ UNCHANGED <<documents, chunkRows, nextChunkId, now, collections, objects,
                 nextUuid, txRows, txCleared, docChunks, committedRuns,
                 lastRun, wrote, retries>>

\* lines 323-330: every id of the snapshot has had its run; return the counts.
BatchReturns ==
  /\ UNCHANGED <<sentVars, jobVars>>
  /\ BatchRun(BatchSlot)
  /\ att[BatchSlot].pc = "start"
  /\ batch.i > Len(batch.document_ids)
  /\ batch' = [batch EXCEPT !.pc = "returned"]
  /\ UNCHANGED <<documents, chunkRows, nextChunkId, now, collections, objects,
                 nextUuid, att, txRows, txCleared, docChunks, committedRuns,
                 lastRun, blockedBy, wrote, retries>>

\* What the batch returns (lines 323-330).
BatchResult ==
  [documents_indexed |-> batch.indexed_count,
   documents_skipped |-> batch.skipped_count,
   documents_failed |-> batch.failed_count,
   total_documents |-> Len(batch.document_ids),
   status |-> "completed"]

InitBatch ==
  /\ RunsStart
  /\ batch = IdleBatch
  /\ docChunks \in [DocIds -> {1}]
  /\ SentenceStart
  /\ JobStart
  /\ jobExists = TRUE /\ mainDocExists = TRUE /\ nsent = 0

\* The runs of the batch and of the index tasks beside it.  For the batch a
\* run is its result: a run that fails after part of its evidence-store
\* writes counts as any failed run (IndexFails), and no re-indexing is asked
\* for while the batch runs.
NextBatch ==
  \/ \E w \in Attempts : AcquireLock(w)
  \/ \E w \in Attempts : AlreadyIndexed(w)
  \/ \E w \in Attempts : ClearChunks(w)
  \/ \E w \in Attempts : CreateSchema(w)
  \/ \E w \in Attempts : StoreChunks(w)
  \/ \E w \in Attempts : IndexChunks(w)
  \/ \E w \in Attempts : CommitIndex(w)
  \/ \E w \in Attempts : IndexFails(w)
  \/ BatchSnapshot
  \/ BatchCounts
  \/ BatchReturns

SpecBatch == InitBatch /\ [][NextBatch]_vars

\* ------------------------------------------------- verify_sentence, by step
\* The objects of the project's collection a query can return.
Objs ==
  { [content |-> 1, document_id |-> 1, chunk_id |-> 11, page_number |-> 1,
     start_char |-> 0, end_char |-> 10, filename |-> <<1, 2>>],
    [content |-> 2, document_id |-> 2, chunk_id |-> 12, page_number |-> 2,
     start_char |-> 10, end_char |-> 20, filename |-> <<101, 3>>],
    [content |-> 1, document_id |-> 1, chunk_id |-> NoId, page_number |-> 2,
     start_char |-> 20, end_char |-> 30, filename |-> <<1, 2>>] }

Distances == {9, 45, NoDistance}

Hits == {[content |-> o.content, document_id |-> o.document_id,
          chunk_id |-> o.chunk_id, page_number |-> o.page_number,
          start_char |-> o.start_char, end_char |-> o.end_char,
          filename |-> o.filename, distance |-> d] :
            o \in Objs, d \in Distances}

\* What a query with the given limit can return.
StoreQuery(limit) ==
  UNION {[1..n -> Hits] : n \in 0..Min(limit, MaxHits)}

Rerankers ==
  {[mode |-> m, score |-> f] :
     m \in {"cohere", "cosine", "fail"},
     f \in [{o.content : o \in Objs} -> {30, 70}]}

RawCitations ==
  {[document |-> d, page |-> p, quote |-> 1] :
     d \in {<<>>, <<1, 2>>, <<101>>, <<3>>}, p \in {NoPage, 2}}

Verdicts ==
  {[validation_result |-> "VALIDATED", confidence_score |-> 80],
   [validation_result |-> "UNCERTAIN", confidence_score |-> 150],
   [validation_result |-> "INCORRECT", confidence_score |-> -5],
   [validation_result |-> "MAYBE", confidence_score |-> 80]}

\* What the classifier call can produce.
Responses ==
  {[kind |-> k, validation_result |-> "", confidence_score |-> 0,
    citations |-> <<>>] : k \in {"raise", "text", "malformed"}}
  \cup
  {[kind |-> "json", validation_result |-> v.validation_result,
    confidence_score |-> v.confidence_score, citations |-> c] :
     v \in Verdicts,
     c \in UNION {[1..n -> RawCitations] : n \in 0..MaxCitations}}

\* lines 100-105
SearchSimilar ==
  /\ UNCHANGED <<indexVars, jobVars, reranker>>
  /\ spc = "search_similar"
  /\ \E r \in StoreQuery(Max(RERANK_CANDIDATES, SEMANTIC_TOP_K)) :
       /\ store_response' = r
       /\ semantic_chunks' = search_similar(r, MIN_SIMILARITY_THRESHOLD)
  /\ spc' = "search_hybrid"
  /\ UNCHANGED <<hybrid_chunks, merged, reranked, evidence, llm_response,
                 result>>

\* lines 107-112
SearchHybrid ==
  /\ UNCHANGED <<indexVars, jobVars, reranker>>
  /\ spc = "search_hybrid"
  /\ \E r \in StoreQuery(KEYWORD_TOP_K) :
       /\ store_response' = r
       /\ hybrid_chunks' = search_hybrid(r)
  /\ spc' = "merge"
  /\ UNCHANGED <<semantic_chunks, merged, reranked, evidence, llm_response,
                 result>>

\* vector_store.py lines 258-260 / 321-323 re-raise; verify_sentence lines
\* 164-171 catch.
StoreUnreachable ==
  /\ UNCHANGED <<indexVars, jobVars, reranker>>
  /\ spc \in {"search_similar", "search_hybrid"}
  /\ result' = Result("UNCERTAIN", 0, "error", <<>>)
  /\ spc' = "done"
  /\ store_response' = <<>>
  /\ UNCHANGED <<semantic_chunks, hybrid_chunks, merged, reranked, evidence,
                 llm_response>>

\* lines 114-122
MergeStep ==
  /\ UNCHANGED <<indexVars, jobVars, reranker>>
  /\ spc = "merge"
  /\ merged' = Merge(semantic_chunks, hybrid_chunks)
  /\ store_response' = <<>>
  /\ spc' = "rerank"
  /\ UNCHANGED <<semantic_chunks, hybrid_chunks, reranked, evidence,
                 llm_response, result>>

\* line 125
RerankStep ==
  /\ UNCHANGED <<indexVars, jobVars>>
  /\ spc = "rerank"
  /\ \E rr \in Rerankers :
       /\ reranker' = rr
       /\ reranked' = rerank_chunks(merged, rr)
  /\ semantic_chunks' = <<>>
  /\ hybrid_chunks' = <<>>
  /\ spc' = "truncate"
  /\ UNCHANGED <<store_response, merged, evidence, llm_response, result>>

\* lines 126-136
Truncate ==
  /\ UNCHANGED <<indexVars, jobVars, reranker>>
  /\ spc = "truncate"
  /\ evidence' = Take(reranked, RERANK_TOP_K)
  /\ IF evidence' = <<>>
     THEN /\ result' = Result("UNCERTAIN", 0, "no_evidence", <<>>)
          /\ spc' = "done"
     ELSE /\ spc' = "classify"
          /\ UNCHANGED result
  /\ UNCHANGED <<store_response, semantic_chunks, hybrid_chunks, merged,
                 reranked, llm_response>>

\* lines 138-171
Classify ==
  /\ UNCHANGED <<indexVars, jobVars>>
  /\ spc = "classify"
  /\ \E r \in Responses :
       /\ llm_response' = r
       /\ result' = IF r.kind = "raise"
                    THEN Result("UNCERTAIN", 0, "error", <<>>)
                    ELSE parse_verification_response(r, evidence)
  /\ merged' = <<>>
  /\ reranker' = NoReranker
  /\ reranked' = <<>>
  /\ spc' = "done"
  /\ UNCHANGED <<store_response, semantic_chunks, hybrid_chunks, evidence>>

InitSentence ==
  /\ IndexStart
  /\ docChunks = [d \in DocIds |-> MaxChunks]
  /\ SentenceStart
  /\ JobStart
  /\ jobExists = TRUE /\ mainDocExists = TRUE /\ nsent = 0

NextSentence ==
  \/ SearchSimilar
  \/ SearchHybrid
  \/ StoreUnreachable
  \/ MergeStep
  \/ RerankStep
  \/ Truncate
  \/ Classify

SpecSentence == InitSentence /\ [][NextSentence]_vars

\* --------------------------------------------------- _run_verification_async
\* settings.VERIFICATION_COMMIT_INTERVAL (line 178; 5 when not configured).
commit_interval == 2

\* The task is delivered to a worker, and may be delivered once more for the
\* same job id after the first run has ended.
Deliveries == {1, 2}

\* What verify_sentence is given for the sentences of the job: evidence is
\* found, and the classifier answers VALIDATED with a citation, VALIDATED or
\* INCORRECT without one, or its call raises.
Scenarios ==
  LET hit == CHOOSE h \in Hits : h.chunk_id = 11 /\ h.distance = 9
      rr == [mode |-> "cosine", score |-> [c \in {o.content : o \in Objs} |-> 95]]
      cite == CHOOSE c \in RawCitations : c.document = <<1, 2>> /\ c.page = NoPage
      answer(k, v, cs) == [kind |-> k, validation_result |-> v,
                           confidence_score |-> 80, citations |-> cs]
  IN {[store_up |-> TRUE, semantic |-> <<hit>>, hybrid |-> <<>>,
       rerank |-> rr, response |-> r] :
        r \in {answer("json", "VALIDATED", <<cite>>),
               answer("json", "VALIDATED", <<>>),
               answer("json", "INCORRECT", <<>>),
               answer("raise", "", <<>>)}}

\* Whether verify_sentence reached the classifier call and the call raised.
ClassifierRaised(inp) ==
  inp.store_up /\ Retrieve(inp) # <<>> /\ inp.response.kind = "raise"

\* lines 189-200
VerifiedSentenceRow(idx, verification_result) ==
  [sentence_index |-> idx,
   validation_result |-> verification_result.validation_result,
   confidence_score |-> verification_result.confidence_score,
   citations |-> verification_result.citations]

\* lines 204-209
CountVerdict(r, verdict) ==
  [r EXCEPT
     !.validated_count = IF verdict = "VALIDATED" THEN @ + 1 ELSE @,
     !.uncertain_count = IF verdict = "UNCERTAIN" THEN @ + 1 ELSE @,
     !.incorrect_count = IF verdict = "INCORRECT" THEN @ + 1 ELSE @]

\* Mutant of UpdateProgress: the progress is left for the event to set.
UpdateProgressLater(j, r) ==
  [j EXCEPT !.validated_count = r.validated_count,
            !.uncertain_count = r.uncertain_count,
            !.incorrect_count = r.incorrect_count]

\* lines 211-217
UpdateProgress(j, r) ==
  [j EXCEPT !.verified_sentences = r.idx + 1,
            !.progress = [n |-> r.idx + 1, d |-> j.total_sentences],
            !.validated_count = r.validated_count,
            !.uncertain_count = r.uncertain_count,
            !.incorrect_count = r.incorrect_count]

\* line 220
CheckpointDue(idx) == (idx + 1) % commit_interval = 0

\* Mutant of NextSentenceOf: the loop passes over a sentence.
NextSentenceOfSkips(r) ==
  [r EXCEPT !.idx = @ + 2,
            !.pc = IF r.idx + 2 >= nsent THEN "final" ELSE "loop"]

\* The for loop of line 181 moves to the next sentence, or ends.
NextSentenceOf(r) ==
  [r EXCEPT !.idx = @ + 1,
            !.pc = IF r.idx + 1 >= nsent THEN "final" ELSE "loop"]

\* Mutant of SentenceError: the exception leaves the loop and fails the run.
SentenceErrorAborts(r) == [r EXCEPT !.pc = "failing", !.error = "sentence"]

\* lines 237-241: the handler of an exception raised inside the loop body.
SentenceError(r) == NextSentenceOf([r EXCEPT !.error_count = @ + 1])

\* send_verification_progress, lines 306-343: the event, when the publish
\* succeeds; a failing publish is logged and dropped.
Publish(ok, status, progress, current_sentence, total_sentences) ==
  events' = IF ok
            THEN Append(events, [status |-> status, progress |-> progress,
                                 current_sentence |-> current_sentence,
                                 total_sentences |-> total_sentences])
            ELSE events

\* Mutant of Commit: nothing is written to the store.
CommitNothing(j, pending) ==
  /\ job' = job
  /\ vrows' = vrows
  /\ sRows' = pending

\* session.commit(): the pending state of the session becomes the committed
\* state.
Commit(j, pending) ==
  /\ job' = j
  /\ vrows' = vrows \o pending
  /\ sRows' = <<>>

\* session.rollback(): the pending state is dropped, the objects reloaded.
Rollback ==
  /\ sJob' = job
  /\ sRows' = <<>>

\* run_verification_task / lines 124-139: the task starts for the job id.
StartRun ==
  /\ UNCHANGED <<indexVars, sentVars>>
  /\ softAt' = Absent
  /\ run.pc \in {"idle", "returned", "raised"}
  /\ delivered + 1 \in Deliveries
  /\ delivered' = delivered + 1
  /\ raisedAt' = {} /\ bodyRaised' = {} /\ commitFailed' = {}
  /\ returned' = NotReturned
  /\ events' = <<>>
  /\ IF ~jobExists
     THEN \* lines 132-133
          /\ run' = [Idle EXCEPT !.pc = "failing", !.error = "job not found"]
          /\ UNCHANGED <<job, vrows, sJob, sRows>>
     ELSE \/ \* lines 135-139
             /\ sJob' = [job EXCEPT !.status = "PROCESSING",
                                    !.started_at = delivered']
             /\ Commit(sJob', <<>>)
             /\ run' = [Idle EXCEPT !.pc = "load"]
          \/ \* the commit of line 139 raises
             /\ run' = [Idle EXCEPT !.pc = "failing", !.error = "commit"]
             /\ sJob' = job
             /\ UNCHANGED <<job, vrows, sRows>>
  /\ UNCHANGED <<jobExists, mainDocExists, nsent>>

\* lines 141-169: load the main document, extract the sentences, store the
\* total.
LoadDocument ==
  /\ UNCHANGED <<indexVars, sentVars, softAt>>
  /\ run.pc = "load"
  /\ IF ~mainDocExists
     THEN \* lines 147-148, then 276-279
          /\ run' = [run EXCEPT !.pc = "failing",
                                !.error = "main document not found"]
          /\ Rollback
          /\ UNCHANGED <<job, vrows>>
     ELSE /\ sJob' = [sJob EXCEPT !.total_sentences = nsent]
          /\ Commit(sJob', sRows)
          /\ run' = [run EXCEPT !.pc = IF nsent = 0 THEN "final" ELSE "loop"]
  /\ UNCHANGED <<jobExists, mainDocExists, nsent, delivered, returned, events,
                 raisedAt, bodyRaised, commitFailed>>

\* lines 183-217, 241: a sentence is verified and its row added; no
\* checkpoint is due.  inputs is what verify_sentence can meet.
VerifySentenceOf(inputs) ==
  /\ UNCHANGED <<indexVars, sentVars, softAt>>
  /\ run.pc = "loop"
  /\ ~CheckpointDue(run.idx)
  /\ \E inp \in inputs :
       LET verification_result == verify_sentence(inp)
           counted == CountVerdict(run, verification_result.validation_result)
       IN /\ sRows' = Append(sRows,
                        VerifiedSentenceRow(run.idx, verification_result))
          /\ sJob' = UpdateProgress(sJob, counted)
          /\ run' = NextSentenceOf(counted)
          /\ raisedAt' = IF ClassifierRaised(inp)
                         THEN raisedAt \cup {run.idx} ELSE raisedAt
  /\ UNCHANGED <<jobExists, mainDocExists, nsent, job, vrows, delivered,
                 returned, events, bodyRaised, commitFailed>>

VerifySentence == VerifySentenceOf(Scenarios)

\* lines 183-235: a sentence is verified, its row added, and the checkpoint
\* that is due commits and publishes the progress.
VerifyAndCheckpointOf(inputs) ==
  /\ UNCHANGED <<indexVars, sentVars, softAt>>
  /\ run.pc = "loop"
  /\ CheckpointDue(run.idx)
  /\ \E inp \in inputs, published \in BOOLEAN :
       LET verification_result == verify_sentence(inp)
           counted == CountVerdict(run, verification_result.validation_result)
       IN /\ sJob' = UpdateProgress(sJob, counted)
          /\ Commit(sJob', Append(sRows,
                       VerifiedSentenceRow(run.idx, verification_result)))
          /\ Publish(published, "PROCESSING", sJob'.progress,
                     sJob'.verified_sentences, sJob'.total_sentences)
          /\ run' = NextSentenceOf(counted)
          /\ raisedAt' = IF ClassifierRaised(inp)
                         THEN raisedAt \cup {run.idx} ELSE raisedAt
  /\ UNCHANGED <<jobExists, mainDocExists, nsent, delivered, returned,
                 bodyRaised, commitFailed>>

VerifyAndCheckpoint == VerifyAndCheckpointOf(Scenarios)

\* lines 183-221, 237-241: the row is added and counted, then the commit of
\* the checkpoint raises; the loop's handler counts an error and goes on.
\* The failed commit leaves the session either rolled back or as it was.
CheckpointFails ==
  /\ UNCHANGED <<indexVars, sentVars, softAt>>
  /\ run.pc = "loop"
  /\ CheckpointDue(run.idx)
  /\ \E inp \in Scenarios, rolled_back \in BOOLEAN :
       LET verification_result == verify_sentence(inp)
           counted == CountVerdict(run, verification_result.validation_result)
       IN /\ IF rolled_back
             THEN Rollback
             ELSE /\ sJob' = UpdateProgress(sJob, counted)
                  /\ sRows' = Append(sRows,
                        VerifiedSentenceRow(run.idx, verification_result))
          /\ run' = SentenceError(counted)
          /\ raisedAt' = IF ClassifierRaised(inp)
                         THEN raisedAt \cup {run.idx} ELSE raisedAt
  /\ commitFailed' = commitFailed \cup {run.idx}
  /\ UNCHANGED <<jobExists, mainDocExists, nsent, job, vrows, delivered,
                 returned, events, bodyRaised>>

\* lines 237-241: the loop body raises before the row is added (lines
\* 183-200); the handler counts an error and goes on.
SentenceRaises ==
  /\ UNCHANGED <<indexVars, sentVars, softAt>>
  /\ run.pc = "loop"
  /\ run' = SentenceError(run)
  /\ bodyRaised' = bodyRaised \cup {run.idx}
  /\ UNCHANGED <<jobExists, mainDocExists, nsent, job, vrows, sJob, sRows,
                 delivered, returned, events, raisedAt, commitFailed>>

\* lines 243-244
FinalCommit ==
  /\ UNCHANGED <<indexVars, sentVars, softAt>>
  /\ run.pc = "final"
  /\ Commit(sJob, sRows)
  /\ run' = [run EXCEPT !.pc = "complete"]
  /\ UNCHANGED <<jobExists, mainDocExists, nsent, sJob, delivered, returned,
                 events, raisedAt, bodyRaised, commitFailed>>

\* lines 246-250
MarkCompleted ==
  /\ UNCHANGED <<indexVars, sentVars, softAt>>
  /\ run.pc = "complete"
  /\ sJob' = [sJob EXCEPT !.status = "COMPLETED", !.completed_at = delivered,
                          !.progress = [n |-> 1, d |-> 1]]
  /\ Commit(sJob', sRows)
  /\ run' = [run EXCEPT !.pc = "completed"]
  /\ UNCHANGED <<jobExists, mainDocExists, nsent, delivered, returned, events,
                 raisedAt, bodyRaised, commitFailed>>

\* lines 252-274: publish the completion event and return the counts.
ReturnCompleted ==
  /\ UNCHANGED <<indexVars, sentVars, softAt>>
  /\ run.pc = "completed"
  /\ \E published \in BOOLEAN :
       Publish(published, "COMPLETED", [n |-> 100, d |-> 1],
               sJob.total_sentences, sJob.total_sentences)
  /\ returned' = [status |-> "completed",
                  total_sentences |-> sJob.total_sentences,
                  validated |-> run.validated_count,
                  uncertain |-> run.uncertain_count,
                  incorrect |-> run.incorrect_count,
                  errors |-> run.error_count]
  /\ run' = [run EXCEPT !.pc = "returned"]
  /\ UNCHANGED <<jobExists, mainDocExists, nsent, job, vrows, sJob, sRows,
                 delivered, raisedAt, bodyRaised, commitFailed>>

\* lines 276-279: an exception outside the loop body (the processor at line
\* 163, a commit at 168, 244 or 250, or closing the session and its engine
\* at lines 62-72 once the job is committed COMPLETED): rollback, re-raise.
RunFails ==
  /\ UNCHANGED <<indexVars, sentVars, softAt>>
  /\ run.pc \in {"load", "final", "complete", "completed"}
  /\ run.pc = "load" => mainDocExists
  /\ run' = [run EXCEPT !.pc = "failing",
                        !.error = IF run.pc = "load" THEN "extraction"
                                  ELSE IF run.pc = "completed" THEN "close"
                                  ELSE "commit"]
  /\ Rollback
  /\ UNCHANGED <<jobExists, mainDocExists, nsent, job, vrows, delivered,
                 returned, events, raisedAt, bodyRaised, commitFailed>>

\* Mutant of update_job_status: the message is not stored.
update_job_status_no_message(j, status, error_message) ==
  [j EXCEPT !.status = status]

\* _update_job_status, lines 282-303, as called with FAILED and a message.
update_job_status(j, status, error_message) ==
  [j EXCEPT !.status = status,
            !.error_message = IF error_message # "" THEN error_message ELSE @]

\* run_verification_task lines 102-114: the handler of a failed run marks
\* the job FAILED in a session of its own (and only logs if that fails too),
\* then re-raises.
UpdateJobStatus ==
  /\ UNCHANGED <<indexVars, sentVars, softAt>>
  /\ run.pc = "failing"
  /\ \E updated \in BOOLEAN :
       IF updated /\ jobExists
       THEN job' = update_job_status(job, "FAILED", run.error)
       ELSE UNCHANGED job
  /\ run' = [run EXCEPT !.pc = "raised"]
  /\ returned' = [status |-> "raised"]
  /\ UNCHANGED <<jobExists, mainDocExists, nsent, vrows, sJob, sRows,
                 delivered, events, raisedAt, bodyRaised, commitFailed>>

InitJob ==
  /\ IndexStart
  /\ docChunks = [d \in DocIds |-> MaxChunks]
  /\ SentenceStart
  /\ JobStart
  /\ \/ jobExists = FALSE /\ mainDocExists = TRUE /\ nsent = 0
     \/ jobExists = TRUE /\ mainDocExists = FALSE /\ nsent = 0
     \/ jobExists = TRUE /\ mainDocExists = TRUE /\ nsent \in 0..MaxSentences

\* The index tasks, and the verification task given the id of a job that
\* does not exist.
InitNotFound ==
  /\ IndexStart
  /\ docChunks \in [DocIds -> {1}]
  /\ SentenceStart
  /\ JobStart
  /\ jobExists = FALSE /\ mainDocExists = TRUE /\ nsent = 0

NextNotFound ==
  \/ NextTask
  \/ StartRun
  \/ UpdateJobStatus

SpecNotFound == InitNotFound /\ [][NextNotFound]_vars

\* ------------------------------------------------ the time limits of a run
\* soft_time_limit (line 78): SoftTimeLimitExceeded is raised in the worker
\* where it stands.  Inside the body of the sentence loop it is an Exception
\* like any other and is caught by the handler of lines 237-241.
SoftLimitInLoop ==
  /\ UNCHANGED <<indexVars, sentVars>>
  /\ run.pc = "loop"
  /\ softAt = Absent
  /\ softAt' = run.idx
  /\ run' = SentenceError(run)
  /\ bodyRaised' = bodyRaised \cup {run.idx}
  /\ UNCHANGED <<jobExists, mainDocExists, nsent, job, vrows, sJob, sRows,
                 delivered, returned, events, raisedAt, commitFailed>>

\* time_limit (line 79): the worker process of the run is killed where it
\* stands; its locals and its session are gone and no handler runs.
HardLimit ==
  /\ UNCHANGED <<indexVars, sentVars, softAt>>
  /\ run.pc \in {"load", "loop", "final", "complete", "completed", "failing"}
  /\ run' = [Idle EXCEPT !.pc = "killed"]
  /\ sJob' = job
  /\ sRows' = <<>>
  /\ UNCHANGED <<jobExists, mainDocExists, nsent, job, vrows, delivered,
                 returned, events, raisedAt, bodyRaised, commitFailed>>

NextJob ==
  \/ StartRun
  \/ LoadDocument
  \/ VerifySentence
  \/ VerifyAndCheckpoint
  \/ CheckpointFails
  \/ SentenceRaises
  \/ FinalCommit
  \/ MarkCompleted
  \/ ReturnCompleted
  \/ RunFails
  \/ UpdateJobStatus

SpecJob == InitJob /\ [][NextJob]_vars

\* The runs of a job that exists, under the time limits of the task.
InitLimits ==
  /\ IndexStart
  /\ docChunks = [d \in DocIds |-> MaxChunks]
  /\ SentenceStart
  /\ JobStart
  /\ jobExists = TRUE /\ mainDocExists = TRUE /\ nsent \in 1..MaxSentences

NextLimits ==
  \/ StartRun
  \/ LoadDocument
  \/ VerifySentence
  \/ VerifyAndCheckpoint
  \/ FinalCommit
  \/ MarkCompleted
  \/ ReturnCompleted
  \/ RunFails
  \/ UpdateJobStatus
  \/ SoftLimitInLoop
  \/ HardLimit

SpecLimits == InitLimits /\ [][NextLimits]_vars

\* ------------------- index runs and the retrieval of a job in one project
\* An object of the project's collection as near_vector returns it
\* (vector_store.py lines 176-190, 229-250); the properties the index runs
\* are not followed for are the same for every object.
StoredHit(o, distance) ==
  [uuid |-> o.uuid, content |-> o.chunk_id, document_id |-> o.document_id,
   chunk_id |-> o.chunk_id, page_number |-> 1, start_char |-> 0,
   end_char |-> 10, filename |-> <<o.document_id>>, distance |-> distance]

\* What near_vector can return from the collection as it stands: at most
\* limit of its objects, each once, the nearest first.
ProjectQuery(limit) ==
  {r \in UNION {[1..n -> {StoredHit(o, d) : o \in objects, d \in Distances}] :
                  n \in 0..Min(limit, MaxHits)} :
     \A i \in 1..Len(r), k \in 1..Len(r) :
       i < k => r[i].uuid # r[k].uuid /\ r[i].distance <= r[k].distance}

\* verify_sentence lines 100-105, for one sentence after another of a job
\* of the project: search_similar on the collection the index runs write
\* to.  The query has no filter on the document; before the collection
\* exists it raises (StoreUnreachable).
SearchProject ==
  /\ UNCHANGED <<indexVars, jobVars>>
  /\ spc = "search_similar"
  /\ collections
  /\ \E r \in ProjectQuery(Max(RERANK_CANDIDATES, SEMANTIC_TOP_K)) :
       /\ store_response' = r
       /\ semantic_chunks' = search_similar(r, MIN_SIMILARITY_THRESHOLD)
  /\ UNCHANGED <<spc, hybrid_chunks, merged, reranker, reranked, evidence,
                 llm_response, result>>

InitRetrieval ==
  /\ IndexStart
  /\ docChunks \in [DocIds -> {1}]
  /\ SentenceStart
  /\ JobStart
  /\ jobExists = TRUE /\ mainDocExists = TRUE /\ nsent = 0

NextRetrieval ==
  \/ \E w \in Attempts : AcquireLock(w)
  \/ \E w \in Attempts : ClearChunks(w)
  \/ \E w \in Attempts : CreateSchema(w)
  \/ \E w \in Attempts : StoreChunks(w)
  \/ \E w \in Attempts : IndexChunks(w)
  \/ \E w \in Attempts : IndexChunksFails(w)
  \/ \E w \in Attempts : CommitIndex(w)
  \/ \E w \in Attempts : IndexFails(w)
  \/ SearchProject

SpecRetrieval == InitRetrieval /\ [][NextRetrieval]_vars


\* ------------------------------- a job whose sentences find no evidence
\* What verify_sentence meets when the project holds nothing near the
\* sentence: the store answers, the semantic query returns nothing, or only
\* objects below the threshold or without a distance, and the hybrid query
\* returns nothing; the classifier, were it called, could answer or raise.
NoEvidence ==
  LET far == CHOOSE h \in Hits : h.chunk_id = 11 /\ h.distance = 45
      blind == CHOOSE h \in Hits : h.chunk_id = 11 /\ h.distance = NoDistance
      cite == CHOOSE c \in RawCitations :
                c.document = <<1, 2>> /\ c.page = NoPage
  IN {[store_up |-> TRUE, semantic |-> s, hybrid |-> <<>>, rerank |-> rr,
       response |-> r] :
        s \in {<<>>, <<far>>, <<blind>>},
        rr \in {x \in Rerankers : x.mode \in {"cosine", "fail"}},
        r \in {[kind |-> "json", validation_result |-> "VALIDATED",
                confidence_score |-> 80, citations |-> <<cite>>],
               [kind |-> "raise", validation_result |-> "",
                confidence_score |-> 0, citations |-> <<>>]}}

VerifyWithoutEvidence == VerifySentenceOf(NoEvidence)

CheckpointWithoutEvidence == VerifyAndCheckpointOf(NoEvidence)

InitNoEvidence ==
  /\ IndexStart
  /\ docChunks = [d \in DocIds |-> MaxChunks]
  /\ SentenceStart
  /\ JobStart
  /\ jobExists = TRUE /\ mainDocExists = TRUE /\ nsent \in 1..MaxSentences

NextNoEvidence ==
  \/ StartRun
  \/ LoadDocument
  \/ VerifyWithoutEvidence
  \/ CheckpointWithoutEvidence
  \/ SentenceRaises
  \/ FinalCommit
  \/ MarkCompleted
  \/ ReturnCompleted
  \/ RunFails
  \/ UpdateJobStatus

SpecNoEvidence == InitNoEvidence /\ [][NextNoEvidence]_vars


\* ------------------------------------------------------------------ claims
\* What another process can observe: the committed relational state and the
\* evidence store.
sharedState == <<documents, chunkRows, collections, objects>>

Done(w) == att[w].pc = "done"

\* C1, mutual exclusion part: no two attempts hold the lock of a document.
ExclusiveLock == \A d \in DocIds : Cardinality(Holders(d)) <= 1

\* C1, the attempt that finds the lock held: it ends in that same step with
\* already_processing, never holds the lock and writes nothing.
LoserFailsFast ==
  \A w \in Attempts :
    /\ blockedBy[w] # None <=> att[w].status = "already_processing"
    /\ att[w].status = "already_processing" =>
         /\ Done(w) /\ ~att[w].holds /\ ~wrote[w]
         /\ att[w].chunks_indexed = Absent
         /\ blockedBy[w] # w

\* C1, the step that returns already_processing changes no shared state.
LoserStep ==
  \A w \in Attempts :
    (att[w].pc = "start" /\ att'[w].status = "already_processing")
      => UNCHANGED sharedState

\* C1, the attempt that holds the lock proceeds: it ends completed exactly
\* when its final commit succeeded, and otherwise with already_indexed (the
\* flag was already set) or an error (a step failed).
HolderProceeds ==
  \A w \in Attempts :
    /\ att[w].holds => att[w].status = "none" /\ ~Done(w)
    /\ (Done(w) /\ att[w].status # "already_processing") =>
          /\ att[w].status \in {"completed", "already_indexed", "error"}
          /\ att[w].status = "completed" <=> w \in committedRuns

\* C1 (as amended): of two overlapping Index attempts on a document, one holds
\* the lock and proceeds (to completed, unless the document was already
\* indexed or a step of the run fails), the other returns already_processing
\* at once and writes nothing; never do two attempts hold the same lock.
C1_MutualExclusion ==
  /\ [](ExclusiveLock /\ LoserFailsFast /\ HolderProceeds)
  /\ [][LoserStep]_vars

\* C1 as stated: whenever an attempt returned already_processing, the attempt
\* that held the lock returns completed.
C1_HolderAlwaysCompletes ==
  \A w \in Attempts :
    (att[w].status = "already_processing" /\ Done(blockedBy[w]))
      => att[blockedBy[w]].status = "completed"

\* C1 witness: one attempt was turned away and the holder has completed.
C1_Witness ==
  \E w \in Attempts :
    /\ att[w].status = "already_processing"
    /\ att[blockedBy[w]].status = "completed"
    /\ att[blockedBy[w]].chunks_indexed = MaxChunks

\* C2, the step taken on an indexed document under the lock: it returns
\* already_indexed with chunks_indexed 0 and changes nothing shared.
SkipStep ==
  \A w \in Attempts :
    (att[w].pc = "locked" /\ documents[att[w].doc].indexed /\ att'[w] # att[w])
      => /\ att'[w].status = "already_indexed"
         /\ att'[w].chunks_indexed = 0
         /\ att'[w].pc = "done"
         /\ UNCHANGED <<sharedState, nextChunkId, nextUuid>>

\* C2: Index on an indexed document returns already_indexed, chunks_indexed
\* 0, and writes nothing: the chunk rows, the evidence store and the
\* document's indexed, indexed_at and page count stay as they are.
C2_AlreadyIndexedNoWrites ==
  /\ [](\A w \in Attempts : att[w].status = "already_indexed" =>
           /\ ~wrote[w] /\ att[w].chunks_indexed = 0
           /\ att[w].doc \in DocIds /\ lastRun[att[w].doc] # None)
  /\ [][SkipStep]_vars

\* C2 witness: a second Index of a document with chunk rows was skipped.
C2_Witness ==
  \E w \in Attempts :
    /\ att[w].status = "already_indexed"
    /\ documents[att[w].doc].indexed
    /\ Cardinality(RowsOf(chunkRows, att[w].doc)) = MaxChunks

\* C3: in the committed state a document with indexed = TRUE has exactly the
\* chunk rows of its last committed run, each with its evidence-store id, and
\* a document with indexed = FALSE shows only rows of runs that committed.
C3_NoHalfIndexed ==
  \A d \in DocIds :
    LET rows == RowsOf(chunkRows, d)
    IN /\ documents[d].indexed =>
            /\ lastRun[d] \in committedRuns
            /\ \A r \in rows : r.run = lastRun[d] /\ r.weaviate_id # None
            /\ {r.chunk_index : r \in rows} = 0..(docChunks[d] - 1)
            /\ Cardinality(rows) = docChunks[d]
            /\ documents[d].indexed_at # None
            /\ documents[d].page_count = docChunks[d]
       /\ ~documents[d].indexed =>
            \A r \in rows : r.run \in committedRuns /\ r.weaviate_id # None

\* C3 witness: a re-index run has flushed its rows and written its evidence
\* but not committed, while the committed state still shows the older rows.
C3_Witness ==
  \E w \in Attempts :
    /\ att[w].pc = "evidence"
    /\ txRows[w] # {}
    /\ RowsOf(chunkRows, att[w].doc) # {}
    /\ ~documents[att[w].doc].indexed

\* C4 as stated: the status of a job only moves PENDING -> PROCESSING ->
\* COMPLETED or FAILED (a job that fails before it is PROCESSING is allowed
\* to go from PENDING to FAILED), and no step changes a status that is
\* COMPLETED or FAILED.
LegalStatusMove(a, b) ==
  \/ a = b
  \/ a = "PENDING" /\ b \in {"PROCESSING", "FAILED"}
  \/ a = "PROCESSING" /\ b \in {"COMPLETED", "FAILED"}

C4_TerminalStatesFinal == [][LegalStatusMove(job.status, job'.status)]_vars

\* C5: a step of the sentence loop, a failing one included, goes on to the
\* next sentence (or past the last one) and leaves the job PROCESSING: no
\* step of the loop fails the run.  A run that returns has gone through all
\* the sentences and has left the job COMPLETED, whatever its error count.
LoopStep ==
  run.pc = "loop" =>
    /\ run'.pc \in {"loop", "final"}
    /\ run'.idx = run.idx + 1
    /\ job'.status = "PROCESSING"

LoopRunsToTheEnd ==
  /\ run.pc = "loop" => job.status = "PROCESSING" /\ run.idx < nsent
  /\ run.pc \in {"final", "complete", "completed", "returned"} => run.idx = nsent
  /\ run.pc = "returned" => job.status = "COMPLETED"

C5_SentenceFailureDoesNotAbort == []LoopRunsToTheEnd /\ [][LoopStep]_vars

\* C5 witness: the first of two sentences failed, the second has its row,
\* and the run returned with the job COMPLETED.
C5_Witness ==
  /\ run.pc = "returned"
  /\ nsent = 2
  /\ bodyRaised = {0}
  /\ returned.errors = 1
  /\ job.status = "COMPLETED"
  /\ \E i \in 1..Len(vrows) : vrows[i].sentence_index = 1

\* C6 as stated: in a first run that returns and in which the classifier call
\* raised for exactly one sentence (and nothing else failed), that sentence
\* has no row, the rows number one less than the sentences, and the error
\* count is 1.
C6_RaisingSentenceLeavesNoRow ==
  ( /\ run.pc = "returned"
    /\ delivered = 1
    /\ Cardinality(raisedAt) = 1
    /\ bodyRaised = {}
    /\ commitFailed = {} )
  => /\ \A i \in 1..Len(vrows) : vrows[i].sentence_index \notin raisedAt
     /\ Len(vrows) = nsent - 1
     /\ returned.errors = 1

\* C7 as stated: the counts a completed run returns add up to the number of
\* sentences.
C7_CounterConservation ==
  run.pc = "returned" =>
    returned.validated + returned.uncertain + returned.incorrect
      + returned.errors = returned.total_sentences

\* C8 as stated: the committed progress of a job never decreases, and a job
\* committed COMPLETED has progress 1.0 and completed_at set.
ProgressLE(a, b) == a.n * b.d <= b.n * a.d

CompletedIsWhole ==
  job.status = "COMPLETED" =>
    /\ job.progress.n = job.progress.d
    /\ job.completed_at # None

C8_ProgressMonotone ==
  /\ [][ProgressLE(job.progress, job'.progress)]_vars
  /\ []CompletedIsWhole

\* C9 as stated: no row of the job, committed or pending, has verdict
\* VALIDATED and an empty citation list.
C9_NoValidatedWithoutCitation ==
  \A i \in 1..Len(vrows \o sRows) :
    LET row == (vrows \o sRows)[i]
    IN ~(row.validation_result = "VALIDATED" /\ row.citations = <<>>)

\* C10: every citation of the result of a sentence has the document id, page
\* number, character span, similarity score and filename of one chunk of the
\* evidence list retrieved for that sentence.
FromChunk(citation, chunk) ==
  /\ citation.document_id = chunk.document_id
  /\ citation.page_number = chunk.page_number
  /\ citation.start_char = chunk.start_char
  /\ citation.end_char = chunk.end_char
  /\ citation.similarity_score = chunk.similarity
  /\ citation.filename = chunk.filename

C10_CitationsFromEvidence ==
  spc = "done" =>
    \A i \in 1..Len(result.citations) :
      \E j \in 1..Len(evidence) : FromChunk(result.citations[i], evidence[j])

\* C10 witness: two chunks were retrieved and the result cites the second,
\* which the classifier named with a page number.
C10_Witness ==
  /\ spc = "done"
  /\ Len(evidence) = 2
  /\ Len(result.citations) = 1
  /\ llm_response.citations[1].page # NoPage
  /\ FromChunk(result.citations[1], evidence[2])
  /\ ~FromChunk(result.citations[1], evidence[1])

\* C11 as stated: when the classifier's response cannot be parsed (no JSON
\* object in it, or one that does not load), the result of the sentence is
\* UNCERTAIN with confidence 0 and no citations.
C11_UnparsableIsUncertainZero ==
  (spc = "done" /\ llm_response.kind \in {"text", "malformed"}) =>
    /\ result.validation_result = "UNCERTAIN"
    /\ result.confidence_score = 0
    /\ result.citations = <<>>

\* C12: the semantic query reports, in the store's order, exactly the
\* candidates that have a distance and whose 1 - distance reaches the
\* threshold, each with similarity 1 - distance and source semantic; the
\* hybrid query reports every candidate, with similarity 1 - distance and
\* source hybrid when it has a distance, and similarity 0 and source
\* hybrid_keyword_only when it has none.
SameObject(chunk, obj) ==
  /\ chunk.content = obj.content
  /\ chunk.document_id = obj.document_id
  /\ chunk.chunk_id = obj.chunk_id
  /\ chunk.page_number = obj.page_number
  /\ chunk.start_char = obj.start_char
  /\ chunk.end_char = obj.end_char
  /\ chunk.filename = obj.filename

Survivors(response) ==
  {i \in 1..Len(response) :
     /\ response[i].distance # NoDistance
     /\ 100 - response[i].distance >= MIN_SIMILARITY_THRESHOLD}

\* The k-th survivor, in the order of the response.
Survivor(response, k) ==
  CHOOSE i \in Survivors(response) :
    Cardinality({j \in Survivors(response) : j <= i}) = k

SemanticReport ==
  spc = "search_hybrid" =>
    /\ Len(semantic_chunks) = Cardinality(Survivors(store_response))
    /\ \A k \in 1..Len(semantic_chunks) :
         LET obj == store_response[Survivor(store_response, k)]
         IN /\ SameObject(semantic_chunks[k], obj)
            /\ semantic_chunks[k].similarity = 100 - obj.distance
            /\ semantic_chunks[k].source = "semantic"

HybridReport ==
  spc = "merge" =>
    /\ Len(hybrid_chunks) = Len(store_response)
    /\ \A k \in 1..Len(hybrid_chunks) :
         LET obj == store_response[k]
         IN /\ SameObject(hybrid_chunks[k], obj)
            /\ IF obj.distance = NoDistance
               THEN /\ hybrid_chunks[k].similarity = 0
                    /\ hybrid_chunks[k].source = "hybrid_keyword_only"
               ELSE /\ hybrid_chunks[k].similarity = 100 - obj.distance
                    /\ hybrid_chunks[k].source = "hybrid"

C12_SimilarityConversion == SemanticReport /\ HybridReport

\* C12 witness: the semantic query kept a candidate, and the hybrid query
\* returned one candidate with a distance and one without.
C12_Witness ==
  /\ spc = "merge"
  /\ Len(semantic_chunks) = 1
  /\ Len(hybrid_chunks) = 2
  /\ hybrid_chunks[1].source = "hybrid_keyword_only"
  /\ hybrid_chunks[2].source = "hybrid"
  /\ hybrid_chunks[2].similarity = 55

\* C13: no list of the retrieval (merged, reranked, returned) holds two
\* entries with the same chunk id.  The merged list is, in order, the first
\* occurrences of each key (the chunk id, or the content when there is no
\* id) in the semantic candidates followed by the hybrid ones, each as it
\* was reported, similarity and source included.  Every returned entry is one
\* of the merged entries, with its source, and with its similarity unless
\* reranking raised it.
NoTwoWithSameId(chunks) ==
  \A i, j \in 1..Len(chunks) :
    (i < j /\ chunks[i].chunk_id # NoId) =>
      chunks[i].chunk_id # chunks[j].chunk_id

KeyOf(chunk) ==
  IF chunk.chunk_id # NoId THEN <<"id", chunk.chunk_id>>
  ELSE <<"content", chunk.content>>

FirstOccurrences(all) ==
  {i \in 1..Len(all) : \A j \in 1..(i - 1) : KeyOf(all[j]) # KeyOf(all[i])}

FirstOccurrence(all, k) ==
  CHOOSE i \in FirstOccurrences(all) :
    Cardinality({j \in FirstOccurrences(all) : j <= i}) = k

FirstOccurrenceWins ==
  spc = "rerank" =>
    LET all == semantic_chunks \o hybrid_chunks
    IN /\ Len(merged) = Cardinality(FirstOccurrences(all))
       /\ \A k \in 1..Len(merged) : merged[k] = all[FirstOccurrence(all, k)]

ReturnedFromMerged ==
  spc = "classify" =>
    \A i \in 1..Len(evidence) :
      \E k \in 1..Len(merged) :
        /\ SameObject(evidence[i], merged[k])
        /\ evidence[i].source = merged[k].source
        /\ evidence[i].similarity >= merged[k].similarity

C13_NoDuplicateChunk ==
  /\ NoTwoWithSameId(merged)
  /\ NoTwoWithSameId(reranked)
  /\ NoTwoWithSameId(evidence)
  /\ FirstOccurrenceWins
  /\ ReturnedFromMerged

\* C13 witness: a chunk id came back from both queries with different
\* similarities, and the merged list holds the semantic entry only.
C13_Witness ==
  /\ spc = "rerank"
  /\ Len(merged) = 1
  /\ merged[1].source = "semantic"
  /\ \E i \in 1..Len(semantic_chunks), j \in 1..Len(hybrid_chunks) :
       /\ semantic_chunks[i].chunk_id # NoId
       /\ semantic_chunks[i].chunk_id = hybrid_chunks[j].chunk_id
       /\ semantic_chunks[i].similarity # hybrid_chunks[j].similarity

\* C14 as stated: on the rerank path and on the cosine path, the returned
\* list has at most top-K entries and is in descending order of the
\* similarity it reports.
Descending(chunks) ==
  \A i, j \in 1..Len(chunks) :
    i < j => chunks[i].similarity >= chunks[j].similarity

C14_TopKDescending ==
  (spc = "classify" /\ reranker.mode \in {"cohere", "cosine"}) =>
    /\ Len(evidence) <= RERANK_TOP_K
    /\ Descending(evidence)

\* C15: every candidate in the result of reranking is one of the merged
\* candidates, and its similarity is the larger of the similarity it had and
\* the score the reranker gave it (the similarity it had, when the reranker
\* failed): never less than before.
C15_RerankNeverLowers ==
  spc = "truncate" =>
    \A i \in 1..Len(reranked) :
      /\ \E k \in 1..Len(merged) : SameObject(reranked[i], merged[k])
      /\ \A k \in 1..Len(merged) :
           SameObject(reranked[i], merged[k]) =>
             /\ reranked[i].similarity >= merged[k].similarity
             /\ reranked[i].similarity =
                  IF reranker.mode = "fail" THEN merged[k].similarity
                  ELSE IF reranker.score[merged[k].content]
                            > merged[k].similarity
                  THEN reranker.score[merged[k].content]
                  ELSE merged[k].similarity

\* C15 witness: reranking raised the similarity of one candidate and kept
\* that of another, whose rerank score was below it.
C15_Witness ==
  /\ spc = "truncate"
  /\ reranker.mode = "cosine"
  /\ Len(merged) = 2
  /\ Len(reranked) = 2
  /\ \E i, j \in 1..2, k, l \in 1..2 :
       /\ SameObject(reranked[i], merged[k])
       /\ reranked[i].similarity > merged[k].similarity
       /\ SameObject(reranked[j], merged[l])
       /\ reranked[j].similarity = merged[l].similarity
       /\ reranker.score[merged[l].content] < merged[l].similarity

\* C16: when the reranker fails, the retrieval goes on: the result of the
\* rerank step is the merged list, order and entries unchanged, and the
\* returned list is its first top-K entries.
C16_RerankFailureFallsBack ==
  /\ (spc = "truncate" /\ reranker.mode = "fail") => reranked = merged
  /\ (spc \in {"classify", "done"} /\ reranker.mode = "fail") =>
       /\ Len(evidence) = Min(Len(merged), RERANK_TOP_K)
       /\ \A i \in 1..Len(evidence) : evidence[i] = merged[i]
       /\ (merged # <<>>) => spc = "classify"

\* C16 witness: the reranker failed on three merged candidates that were not
\* in descending order; the first two went on to the classifier, the third,
\* of higher similarity than the second, did not.
C16_Witness ==
  /\ spc = "classify"
  /\ reranker.mode = "fail"
  /\ Len(merged) = 3
  /\ Len(evidence) = 2
  /\ merged[2].similarity < merged[3].similarity

\* C17 as stated: the step at which the evidence store is unreachable (a
\* query of verify_sentence raises) does not end verify_sentence with a
\* verdict: the error reaches the caller.
StoreFails ==
  /\ spc \in {"search_similar", "search_hybrid"}
  /\ spc' = "done"

C17_StoreErrorReachesCaller ==
  [][StoreFails =>
       result'.validation_result \notin {"VALIDATED", "UNCERTAIN", "INCORRECT"}]_vars

\* C18 as stated: in every committed state of the job, verified_sentences is
\* at most total_sentences and progress is verified_sentences divided by
\* total_sentences (compared by cross-multiplication, so that a job of zero
\* sentences is not held against the claim).
C18_ProgressIsVerifiedOverTotal ==
  /\ job.verified_sentences <= job.total_sentences
  /\ job.progress.n * job.total_sentences
       = job.verified_sentences * job.progress.d

\* C19 as stated: for a document committed as indexed, the evidence store
\* holds exactly one record per chunk row of the document, the one the row
\* names, and no record of an earlier run.
C19_OneRecordPerChunk ==
  \A d \in DocIds :
    documents[d].indexed =>
      LET records == {o \in objects : o.document_id = d}
          rows == RowsOf(chunkRows, d)
      IN /\ Cardinality(records) = Cardinality(rows)
         /\ \A o \in records :
              \E r \in rows : r.id = o.chunk_id /\ r.weaviate_id = o.uuid

\* C20 as stated: the job never has two VerifiedSentence rows, committed or
\* pending, for the same sentence ordinal.
C20_OneRowPerSentence ==
  LET rows == vrows \o sRows
  IN \A i, j \in 1..Len(rows) :
       i < j => rows[i].sentence_index # rows[j].sentence_index

\* C21: an index task whose run finds the document locked is retried, never
\* more than max_retries (5) times, that is at most 6 runs; every task comes
\* to an end, with completed / already_indexed, or with a failure that is
\* surfaced either once the retries are used up or at once when the run
\* raised another error.
TaskEnded(w) == TaskOutcome(w) \in {"succeeded", "failed"}

RetriesBounded ==
  \A w \in Attempts :
    /\ retries[w] <= max_retries
    /\ retries[w] > 0 => att[w].doc # NoDoc
    /\ TaskOutcome(w) = "succeeded" =>
         att[w].status \in {"completed", "already_indexed"}
    /\ TaskOutcome(w) = "failed" =>
         \/ att[w].status = "error"
         \/ att[w].status = "already_processing" /\ retries[w] = max_retries

C21_BoundedRetries ==
  /\ []RetriesBounded
  /\ [][\A w \in Attempts : TaskEnded(w) => TaskEnded(w)' /\ att[w]' = att[w]]_vars
  /\ <>[](\A w \in Attempts : TaskEnded(w))

C21_Witness ==
  \E w \in Attempts :
    /\ TaskOutcome(w) = "failed"
    /\ att[w].status = "already_processing"
    /\ retries[w] = max_retries
    /\ \E v \in Attempts : v # w /\ att[v].status = "completed"

\* C21 as stated: a task fails only after its retries are used up.
C21_FailureOnlyAfterRetries ==
  \A w \in Attempts : TaskOutcome(w) = "failed" => retries[w] = max_retries

\* C22: the batch index makes one run for every id of its snapshot, in
\* order and one at a time, and holds no document lock between two runs; a
\* run that fails is counted and the next id is still run; the counts it
\* returns add up: documents_indexed + documents_skipped + documents_failed
\* = total_documents.
BatchAttempted(k) ==
  /\ batch.outcomes[k].doc = batch.document_ids[k]
  /\ batch.outcomes[k].status \in
       {"completed", "already_indexed", "already_processing", "error"}

C22_BatchCountsAddUp ==
  batch.pc \in {"running", "returned"} =>
    /\ Len(batch.outcomes) = batch.i - 1
    /\ Len(batch.outcomes) <= Len(batch.document_ids)
    /\ \A k \in DOMAIN batch.outcomes : BatchAttempted(k)
    /\ batch.indexed_count + batch.skipped_count + batch.failed_count
         = Len(batch.outcomes)
    /\ att[BatchSlot].pc \in {"start", "done"} => ~att[BatchSlot].holds
    /\ batch.pc = "returned" =>
         /\ Len(batch.outcomes) = Len(batch.document_ids)
         /\ BatchResult.documents_indexed + BatchResult.documents_skipped
              + BatchResult.documents_failed = BatchResult.total_documents

C22_Witness ==
  /\ batch.pc = "returned"
  /\ Len(batch.document_ids) = 2
  /\ batch.outcomes[1].status = "error"
  /\ batch.outcomes[2].status = "completed"
  /\ BatchResult.documents_failed = 1 /\ BatchResult.documents_indexed = 1

\* C23: a job whose worker was terminated on the hard time limit ends with
\* status FAILED; it does not stay PROCESSING once its worker has stopped.
C23_KilledJobIsFailed == run.pc = "killed" => job.status = "FAILED"

\* C24: once the soft time limit was breached during the sentence loop, no
\* later sentence is started: no row of a sentence after the one of the
\* breach is ever added, and when the run is over the progress made up to
\* the breach is committed.
C24_SoftLimitStopsLoop ==
  softAt # Absent =>
    /\ \A k \in DOMAIN (vrows \o sRows) :
         (vrows \o sRows)[k].sentence_index <= softAt
    /\ run.pc \in {"returned", "raised"} => sRows = <<>>

\* C25: a citation the matcher resolved through its fallback (no chunk of
\* the evidence matched its filename and page) is told apart from a matched
\* one by what the caller is given: no citation for which some chunk
\* matches could have given the same entry of the result.
ResolvedByFallback(citation) ==
  evidence # <<>> /\ FirstMatch(citation, evidence, 1) = NoChunk

C25_FallbackIsFlagged ==
  (spc = "done" /\ llm_response.kind = "json" /\ evidence # <<>>) =>
    \A i \in 1..Len(llm_response.citations) :
      ResolvedByFallback(llm_response.citations[i]) =>
        \A other \in RawCitations :
          ~ResolvedByFallback(other) =>
            result.citations[i] #
              Citation(other, find_matching_chunk(other, evidence))

\* C26: within one Index run the steps come in this order: the old chunk
\* rows are deleted, the new rows are flushed and have their ids, one
\* evidence record per row is written carrying the row's id, the document is
\* marked indexed, and everything is committed at once.  Nothing of the
\* document is committed while the run keeps the lock, no evidence record is
\* written for a row that was not flushed, and indexed becomes true only in
\* the commit of a run all of whose evidence writes have returned.
RecordsOf(w) == {o \in objects : o.run = w}

EvidenceWritten(w) ==
  /\ \A r \in txRows[w] :
       /\ r.weaviate_id # None
       /\ Cardinality({o \in RecordsOf(w) : o.chunk_id = r.id}) = 1
       /\ \E o \in RecordsOf(w) : o.chunk_id = r.id /\ o.uuid = r.weaviate_id
  /\ Cardinality(RecordsOf(w)) = Cardinality(txRows[w])

StepState(w) ==
  /\ att[w].pc = "locked" => txRows[w] = {} /\ ~txCleared[w]
  /\ att[w].pc \in {"cleared", "schema"} => txCleared[w] /\ txRows[w] = {}
  /\ att[w].pc = "flushed" =>
       /\ txCleared[w]
       /\ Cardinality(txRows[w]) = docChunks[att[w].doc]
       /\ \A r \in txRows[w] : r.id # None /\ r.weaviate_id = None
       /\ RecordsOf(w) = {}
  /\ att[w].pc = "evidence" => txCleared[w] /\ EvidenceWritten(w)

RunStep ==
  /\ \A w \in Attempts :
       (att[w].holds /\ att[w]'.holds) =>
         /\ documents[att[w].doc]' = documents[att[w].doc]
         /\ RowsOf(chunkRows', att[w].doc) = RowsOf(chunkRows, att[w].doc)
  /\ objects' # objects =>
       \E w \in Attempts :
         /\ att[w].pc = "flushed"
         /\ \A o \in objects' \ objects :
              \E r \in txRows[w] : r.id # None /\ o.chunk_id = r.id
  /\ \A d \in DocIds :
       (~documents[d].indexed /\ documents[d]'.indexed) =>
         \E w \in Attempts :
           /\ att[w].doc = d /\ att[w].pc = "evidence" /\ EvidenceWritten(w)
           /\ att[w]'.status = "completed"
           /\ documents[d]'.indexed_at # None
           /\ documents[d]'.page_count = docChunks[d]
           /\ RowsOf(chunkRows', d) = txRows[w]

C26_StepOrder ==
  /\ [](\A w \in Attempts : StepState(w))
  /\ [][RunStep]_vars

C26_Witness ==
  \E w \in Attempts :
    /\ att[w].status = "completed"
    /\ att[w].chunks_indexed = 2
    /\ Cardinality(RecordsOf(w)) = 2
    /\ documents[att[w].doc].indexed

\* C27: whatever Index runs a document has had (failed ones and re-indexing
\* included), its committed chunk rows have ordinals that are unique and
\* contiguous from 0, and a chunk row, committed or not yet, has an
\* evidence-store id only if the record of that id was written for it.
OrdinalsContiguous(rows) ==
  /\ {r.chunk_index : r \in rows} = 0..(Cardinality(rows) - 1)
  /\ \A r1, r2 \in rows : r1.chunk_index = r2.chunk_index => r1 = r2

IdOnlyOnceWritten(r) ==
  r.weaviate_id # None =>
    \E o \in objects : o.uuid = r.weaviate_id /\ o.chunk_id = r.id

C27_OrdinalsAndIds ==
  /\ \A d \in DocIds : OrdinalsContiguous(RowsOf(chunkRows, d))
  /\ \A r \in chunkRows : IdOnlyOnceWritten(r)
  /\ \A w \in Attempts : \A r \in txRows[w] : IdOnlyOnceWritten(r)

C27_Witness ==
  \E d \in DocIds :
    /\ Cardinality(RowsOf(chunkRows, d)) = 2
    /\ \E w \in Attempts :
         /\ att[w].doc = d /\ att[w].status = "error" /\ RecordsOf(w) # {}
    /\ \E w \in Attempts : att[w].doc = d /\ att[w].status = "completed"

\* C28: a run that fails after it took the lock (the chunker, the evidence
\* store or the commit raising) changes nothing of the committed relational
\* state: its transaction is rolled back and its lock released, the document
\* stays not indexed, the chunk rows committed before the run are still
\* there, the error reaches the caller (the task fails), and the document
\* can be locked by a later run.
FailsHolding(w) == att[w].holds /\ att[w]'.status = "error"

FailedRunStep ==
  \A w \in Attempts :
    FailsHolding(w) =>
      /\ documents' = documents
      /\ chunkRows' = chunkRows
      /\ ~documents[att[w].doc]'.indexed
      /\ txRows[w]' = {} /\ ~txCleared[w]'
      /\ TaskOutcome(w)' = "failed"
      /\ Holders(att[w].doc)' = {}
      /\ \A v \in Attempts : LockAvailable(v, att[w].doc)'

C28_FailedRunChangesNothing == [][FailedRunStep]_vars

C28_Witness ==
  \E w \in Attempts :
    /\ att[w].status = "error"
    /\ RecordsOf(w) # {}
    /\ ~documents[att[w].doc].indexed
    /\ Cardinality(RowsOf(chunkRows, att[w].doc)) = 2
    /\ \A r \in RowsOf(chunkRows, att[w].doc) : r.run # w

\* C29: an Index run given the id of no document, and a verification run
\* given the id of no job, fail with an error and change no document, chunk
\* or job state; the index task fails at once and is not retried, and the
\* verification task raises and has no retry.
NotFoundRun(w) == att[w].pc = "done" /\ att[w].doc = NoDoc

NotFoundStep ==
  /\ \A w \in Attempts :
       (att[w].pc = "start" /\ NotFoundRun(w)') =>
         /\ att[w]'.status = "error"
         /\ ~att[w]'.holds /\ txRows[w]' = {}
         /\ documents' = documents /\ chunkRows' = chunkRows
         /\ objects' = objects
         /\ job' = job /\ vrows' = vrows
         /\ retries' = retries
  /\ \A w \in Attempts : NotFoundRun(w) => att[w]' = att[w]
  /\ job' = job /\ vrows' = vrows /\ sRows' = sRows
  /\ (run.pc = "failing" /\ run' # run) =>
       run'.pc = "raised" /\ returned'.status = "raised"

C29_NotFoundFailsOnce ==
  /\ [](\A w \in Attempts :
         NotFoundRun(w) =>
           /\ TaskOutcome(w) = "failed"
           /\ retries[w] = 0
           /\ ~ENABLED TaskRetries(w))
  /\ [](run.pc \in {"idle", "failing", "raised"}
        /\ (run.pc # "idle" => run.error = "job not found")
        /\ job = PendingJob /\ vrows = <<>>)
  /\ [][NotFoundStep]_vars

C29_Witness ==
  /\ \E w \in Attempts : NotFoundRun(w) /\ att[w].status = "error"
  /\ ~jobExists /\ run.pc = "raised" /\ returned.status = "raised"

\* C30 as stated: when the loop passes a sentence whose ordinal is a
\* multiple of commit_interval, whether the sentence succeeded or raised,
\* the counters and the progress of the job are committed (nothing is left
\* pending in the session) and a progress event is published; and the run
\* returns only with the job committed COMPLETED.  Steps in which the commit
\* itself raised, or the broker refused the event of a commit that was
\* made, are not held against the claim.
DueStep ==
  /\ run.pc = "loop" /\ CheckpointDue(run.idx)
  /\ run'.idx = run.idx + 1
  /\ run.idx \notin commitFailed'

PublishRefused == vrows' # vrows /\ events' = events

CheckpointStep ==
  /\ DueStep =>
       /\ sRows' = <<>> /\ job' = sJob'
       /\ Len(events') = Len(events) + 1 \/ PublishRefused
  /\ (run.pc = "completed" /\ run'.pc = "returned") =>
       job'.status = "COMPLETED" /\ sRows' = <<>>

C30_CheckpointEveryInterval == [][CheckpointStep]_vars

\* C31: within a run of a job the sentences are processed one at a time in
\* document order and their rows are added in that order: a step of the
\* loop finishes the sentence at the loop index and moves the index on by
\* exactly one, a row that is added is one row, for the sentence at the loop
\* index, behind the rows already there (or the pending rows are dropped by
\* a rollback), and the rows a first run has added are in strictly
\* increasing order of sentence_index, all below the loop index.
JobRows == vrows \o sRows

RowsInOrder(rows) ==
  \A i \in 1..Len(rows), k \in 1..Len(rows) :
    i < k => rows[i].sentence_index < rows[k].sentence_index

OneAtATime ==
  /\ (run.pc = "loop" /\ run' # run) =>
       /\ run'.idx = run.idx + 1
       /\ run.idx < nsent
  /\ (run.pc \in {"loop", "final", "complete", "completed"} /\ run' # run
        /\ run.pc # "loop") => run'.idx = run.idx
  /\ LET rows == vrows' \o sRows'
     IN \/ rows = JobRows
        \/ rows = vrows /\ vrows' = vrows
        \/ /\ run.pc = "loop"
           /\ Len(rows) = Len(JobRows) + 1
           /\ SubSeq(rows, 1, Len(JobRows)) = JobRows
           /\ rows[Len(rows)].sentence_index = run.idx

FirstRunInOrder ==
  (delivered = 1 /\ run.pc \in {"loop", "final", "complete", "completed",
                                "returned"}) =>
    /\ RowsInOrder(JobRows)
    /\ \A i \in 1..Len(JobRows) : JobRows[i].sentence_index < run.idx

OutsideLoopErrors ==
  {"commit", "main document not found", "extraction", "close"}

BecomesFailed == job' # job /\ job'.status = "FAILED"

FailedOnlyOutsideLoop ==
  /\ BecomesFailed =>
       /\ run.pc = "failing" /\ run.error \in OutsideLoopErrors
       /\ job'.error_message = run.error /\ job'.error_message # ""
  /\ (run.pc = "loop" /\ run' # run) =>
       /\ run'.pc \in {"loop", "final"}
       /\ job'.status = "PROCESSING"
  /\ (run'.pc = "failing" /\ run.pc # "failing") => run.pc # "loop"

NameIn(name, filename) ==
  \E i \in 1..Len(filename), k \in 1..Len(filename) :
    i <= k /\ LowerStr(SubSeq(filename, i, k)) = LowerStr(name)

MatchesCitation(citation, chunk) ==
  /\ citation.document # <<>>
  /\ NameIn(citation.document, chunk.filename)
  /\ citation.page # NoPage => chunk.page_number = citation.page

MatchingChunks(citation, chunks) ==
  {k \in 1..Len(chunks) : MatchesCitation(citation, chunks[k])}

FirstOf(S) == CHOOSE k \in S : \A m \in S : k <= m

C34_FallbackIsHighestScore ==
  (spc = "done" /\ llm_response.kind = "json" /\ evidence # <<>>) =>
    \A i \in 1..Len(llm_response.citations) :
      ResolvedByFallback(llm_response.citations[i]) =>
        \A k \in 1..Len(evidence) :
          result.citations[i].similarity_score >= evidence[k].similarity

\* C35: a progress event that fails to be published changes nothing else.
\* The checkpoint step (its commit made) whose event is refused still commits the counters
\* and the progress of the sentence, counts no error, leaves the status
\* PROCESSING and moves to the next sentence; the completion step whose
\* event is refused still returns the counts with the job committed
\* COMPLETED; and a run returns completed with the job COMPLETED whatever
\* number of its events was published.
CheckpointEventRefused ==
  /\ run.pc = "loop" /\ CheckpointDue(run.idx)
  /\ vrows' # vrows /\ events' = events

CompletionEventRefused ==
  run.pc = "completed" /\ run'.pc = "returned" /\ events' = events

PublishFailureStep ==
  /\ CheckpointEventRefused =>
       /\ run'.error_count = run.error_count
       /\ run'.pc \in {"loop", "final"} /\ run'.idx = run.idx + 1
       /\ job' = sJob' /\ sRows' = <<>>
       /\ job'.status = "PROCESSING"
       /\ job'.verified_sentences = run.idx + 1
       /\ job'.progress = [n |-> run.idx + 1, d |-> nsent]
       /\ job'.validated_count = run'.validated_count
       /\ job'.uncertain_count = run'.uncertain_count
       /\ job'.incorrect_count = run'.incorrect_count
  /\ CompletionEventRefused =>
       /\ job' = job /\ job.status = "COMPLETED"
       /\ returned'.status = "completed"
       /\ returned'.errors = run.error_count

C35_PublishFailureIsHarmless ==
  /\ [](returned.status = "completed" => job.status = "COMPLETED")
  /\ [][PublishFailureStep]_vars

C35_Witness ==
  /\ returned.status = "completed" /\ returned.errors = 0
  /\ nsent = 2 /\ events = <<>>
  /\ job.status = "COMPLETED" /\ job.verified_sentences = 2

\* C36: an event is published only once the job state it reports is
\* committed.  In every step that publishes an event nothing is left
\* pending in the session (the committed job is the session's job and no
\* row waits), the status and the total of the event are the committed
\* ones, the progress and the sentence count of a progress event are the
\* committed ones, and the completion event is published by a step that
\* changes nothing in the store, after the COMPLETED commit.
EventPublished == Len(events') = Len(events) + 1

LastEvent == events'[Len(events')]

PublishedAfterCommit ==
  EventPublished =>
    /\ job' = sJob' /\ sRows' = <<>>
    /\ LastEvent.status = job'.status
    /\ LastEvent.total_sentences = job'.total_sentences
    /\ LastEvent.status = "PROCESSING" =>
         /\ LastEvent.progress = job'.progress
         /\ LastEvent.current_sentence = job'.verified_sentences
    /\ LastEvent.status = "COMPLETED" =>
         /\ job' = job /\ vrows' = vrows
         /\ job.completed_at # None

EventReportsStoredProgress ==
  EventPublished =>
    /\ LastEvent.progress.n * job'.progress.d =
         job'.progress.n * LastEvent.progress.d
    /\ 0 <= LastEvent.progress.n
    /\ LastEvent.progress.n <= LastEvent.progress.d
    /\ LastEvent.current_sentence <= LastEvent.total_sentences

C37_EventProgressIsStored == [][EventReportsStoredProgress]_vars

\* C38 as stated: when a job is committed COMPLETED, its verified_sentences
\* is the number of VerifiedSentence rows stored for it, and that number is
\* the sum of its three verdict counts, whichever sentences failed.
C38_CompletedCountsAgree ==
  (job.status = "COMPLETED" /\ run.pc \in {"completed", "returned"}) =>
    /\ job.verified_sentences = Len(vrows)
    /\ Len(vrows) = job.validated_count + job.uncertain_count
                      + job.incorrect_count

\* C39 as stated: whatever the interleaving of index runs and the queries
\* of a verification job in the project, every record a query returns
\* belongs to a document that is indexed in the relational store and was
\* written by an index run that committed.
QueryAnswered ==
  store_response' # store_response \/ semantic_chunks' # semantic_chunks

ReturnsOnlyCommitted ==
  QueryAnswered =>
    \A i \in 1..Len(semantic_chunks') :
      /\ documents[semantic_chunks'[i].document_id].indexed
      /\ \E o \in objects :
           /\ o.chunk_id = semantic_chunks'[i].chunk_id
           /\ o.run \in committedRuns

C39_OnlyCommittedEvidence == [][ReturnsOnlyCommitted]_vars

\* C40: when the retrieval of a sentence ends with no evidence the
\* classifier is not called, whatever it would have answered: the result is
\* UNCERTAIN with confidence 0 and no citations, the row added for the
\* sentence carries that result, the sentence is counted in uncertain_count
\* and in no other count, and no failure of the classifier is recorded for
\* it; a job of such sentences completes with all of them UNCERTAIN.
NoEvidenceResult ==
  \A inp \in NoEvidence :
    /\ Retrieve(inp) = <<>>
    /\ verify_sentence(inp) = Result("UNCERTAIN", 0, "no_evidence", <<>>)
    /\ ~ClassifierRaised(inp)

RowAdded ==
  /\ run.pc = "loop"
  /\ Len(vrows' \o sRows') = Len(JobRows) + 1

NoEvidenceStep ==
  RowAdded =>
    LET row == (vrows' \o sRows')[Len(JobRows) + 1]
    IN /\ row = [sentence_index |-> run.idx,
                 validation_result |-> "UNCERTAIN",
                 confidence_score |-> 0, citations |-> <<>>]
       /\ run'.uncertain_count = run.uncertain_count + 1
       /\ run'.validated_count = run.validated_count
       /\ run'.incorrect_count = run.incorrect_count
       /\ sJob'.uncertain_count = run'.uncertain_count
       /\ raisedAt' = raisedAt

NoEvidenceJob ==
  (run.pc = "returned" /\ returned.status = "completed") =>
    /\ returned.uncertain + returned.errors >= job.total_sentences
    /\ returned.validated = 0 /\ returned.incorrect = 0
    /\ job.validated_count = 0 /\ job.incorrect_count = 0
    /\ \A i \in 1..Len(vrows) : vrows[i].validation_result = "UNCERTAIN"

C40_NoEvidenceIsUncertain ==
  /\ [](NoEvidenceResult /\ NoEvidenceJob)
  /\ [][NoEvidenceStep]_vars

C40_Witness ==
  /\ run.pc = "returned" /\ returned.status = "completed" /\ delivered = 1
  /\ nsent = 2 /\ returned.uncertain = 2 /\ returned.errors = 0
  /\ job.uncertain_count = 2 /\ Len(vrows) = 2
  /\ \A i \in 1..2 : /\ vrows[i].validation_result = "UNCERTAIN"
                     /\ vrows[i].confidence_score = 0
                     /\ vrows[i].citations = <<>>
  /\ raisedAt = {}

====
